---------------------------- MODULE Spec2Model ----------------------------
(***************************************************************************)
(* Model of the statistics code of the sleep-health visualisations:        *)
(* CorrelationMatrix, ScatterPlot, CategoryHeatmap and ActivitySweetSpot.  *)
(*                                                                         *)
(* Numbers.  The code computes with JavaScript Numbers (IEEE-754 binary64, *)
(* round to nearest, ties to even).  The model keeps that arithmetic and   *)
(* shortens the significand from 53 bits to Prec bits: every operation     *)
(* (+, -, *, /, sqrt) returns the exact result rounded to Prec significant *)
(* bits, and NaN, +Infinity and -Infinity behave as in IEEE-754.  The      *)
(* exponent is unbounded (no overflow, no subnormals) and zero is unsigned *)
(* (every zero divisor the code can produce is +0).                        *)
(***************************************************************************)
EXTENDS Integers, Sequences, FiniteSets, TLC

\* Significand width of the model's floating-point numbers (binary64: 53).
Prec == 5

\* Largest number of data rows in the CSV file.
MaxRows == 3

(***************************************************************************)
(* Floating-point numbers.  A finite number is m * 2^e with m odd (or      *)
(* m = 0, e = 0), which makes the representation canonical: two numbers    *)
(* are equal iff their records are equal.                                  *)
(***************************************************************************)
NaN == [k |-> "nan", m |-> 0, e |-> 0]
PosInf == [k |-> "inf", m |-> 1, e |-> 0]
NegInf == [k |-> "inf", m |-> -1, e |-> 0]
Zero == [k |-> "fin", m |-> 0, e |-> 0]

Abs(n) == IF n < 0 THEN -n ELSE n
Sign(n) == IF n < 0 THEN -1 ELSE IF n > 0 THEN 1 ELSE 0
Min(a, b) == IF a < b THEN a ELSE b

\* Number of binary digits of 0 <= n < 2^8.
BitLen8(n) ==
    IF n < 16
    THEN (IF n < 4 THEN (IF n < 2 THEN n ELSE 2) ELSE IF n < 8 THEN 3 ELSE 4)
    ELSE (IF n < 64 THEN (IF n < 32 THEN 5 ELSE 6) ELSE IF n < 128 THEN 7 ELSE 8)

\* Number of binary digits of 0 <= n < 2^31.
BitLen(n) ==
    IF n < 256 THEN BitLen8(n)
    ELSE IF n < 65536 THEN 8 + BitLen8(n \div 256)
    ELSE IF n < 16777216 THEN 16 + BitLen8(n \div 65536)
    ELSE 24 + BitLen8(n \div 16777216)

RECURSIVE Canon(_, _)
\* The canonical record of the exact value m * 2^e.
Canon(m, e) ==
    IF m % 2 # 0 THEN [k |-> "fin", m |-> m, e |-> e]
    ELSE IF m = 0 THEN Zero
    ELSE IF m % 16 = 0 THEN Canon(m \div 16, e + 4)
    ELSE IF m % 4 = 0 THEN Canon(m \div 4, e + 2)
    ELSE Canon(m \div 2, e + 1)

\* The exact value m * 2^e rounded to Prec significant bits, ties to even.
Round(m, e) ==
    LET a == Abs(m)
        n == BitLen(a)
    IN  IF n <= Prec THEN Canon(m, e)
        ELSE LET sh == n - Prec
                 q == a \div (2 ^ sh)
                 r == a % (2 ^ sh)
                 half == 2 ^ (sh - 1)
                 up == r > half \/ (r = half /\ q % 2 = 1)
             IN  Canon(Sign(m) * (IF up THEN q + 1 ELSE q), e + sh)

IsNaN(a) == a.k = "nan"
IsFinite(a) == a.k = "fin"
IsZero(a) == a.k = "fin" /\ a.m = 0
\* Sign of a number that is not NaN.
SignOf(a) == Sign(a.m)
\* 2^(Top(a)-1) <= |a| < 2^Top(a) for finite a # 0.
Top(a) == a.e + BitLen(Abs(a.m))

FromInt(n) == Round(n, 0)

\* The integer a Number holds (for a Number that holds one).
IntOf(v) == v.m * (2 ^ v.e)

FNeg(a) == IF a.k = "nan" THEN NaN ELSE [a EXCEPT !.m = -a.m]

\* a + b for finite a, b.
FinAdd(a, b) ==
    IF a.m = 0 THEN b
    ELSE IF b.m = 0 THEN a
    ELSE IF Top(a) - Top(b) >= Prec + 2 THEN a    \* b is below half an ulp of a
    ELSE IF Top(b) - Top(a) >= Prec + 2 THEN b
    ELSE LET e == Min(a.e, b.e)
         IN  Round(a.m * 2 ^ (a.e - e) + b.m * 2 ^ (b.e - e), e)

FAdd(a, b) ==
    IF IsNaN(a) \/ IsNaN(b) THEN NaN
    ELSE IF a.k = "inf" THEN (IF b.k = "inf" /\ b.m # a.m THEN NaN ELSE a)
    ELSE IF b.k = "inf" THEN b
    ELSE FinAdd(a, b)

FSub(a, b) == FAdd(a, FNeg(b))

FMul(a, b) ==
    IF IsNaN(a) \/ IsNaN(b) THEN NaN
    ELSE IF a.k = "inf" \/ b.k = "inf"
         THEN (IF SignOf(a) * SignOf(b) = 0 THEN NaN
               ELSE IF SignOf(a) * SignOf(b) > 0 THEN PosInf ELSE NegInf)
    ELSE Round(a.m * b.m, a.e + b.e)

\* a / b for finite a # 0 and b # 0: the quotient is taken to Prec + 2 bits
\* and a sticky bit records a remainder, so that Round rounds the exact value.
FinDiv(a, b) ==
    LET sh == Prec + 2 + BitLen(Abs(b.m))
        num == Abs(a.m) * 2 ^ sh
        q == num \div Abs(b.m)
        sticky == IF num % Abs(b.m) = 0 THEN 0 ELSE 1
    IN  Round(Sign(a.m) * Sign(b.m) * (2 * q + sticky), a.e - b.e - sh - 1)

FDiv(a, b) ==
    IF IsNaN(a) \/ IsNaN(b) THEN NaN
    ELSE IF a.k = "inf"
         THEN (IF b.k = "inf" THEN NaN
               ELSE IF SignOf(a) * (IF SignOf(b) < 0 THEN -1 ELSE 1) > 0
                    THEN PosInf ELSE NegInf)
    ELSE IF b.k = "inf" THEN Zero
    ELSE IF b.m = 0
         THEN (IF a.m = 0 THEN NaN ELSE IF a.m > 0 THEN PosInf ELSE NegInf)
    ELSE IF a.m = 0 THEN Zero
    ELSE FinDiv(a, b)

RECURSIVE ISqrt(_)
\* floor(sqrt(n)) for n >= 0.
ISqrt(n) ==
    IF n < 2 THEN n
    ELSE LET s == 2 * ISqrt(n \div 4)
         IN  IF (s + 1) * (s + 1) <= n THEN s + 1 ELSE s

\* Math.sqrt
FSqrt(a) ==
    IF IsNaN(a) THEN NaN
    ELSE IF a.k = "inf" THEN (IF a.m > 0 THEN PosInf ELSE NaN)
    ELSE IF a.m < 0 THEN NaN
    ELSE IF a.m = 0 THEN Zero
    ELSE LET t0 == 2 * Prec + 4 - BitLen(a.m)
             t == IF (a.e - t0) % 2 = 0 THEN t0 ELSE t0 + 1
             n == a.m * 2 ^ t
             r == ISqrt(n)
             sticky == IF r * r = n THEN 0 ELSE 1
         IN  Round(2 * r + sticky, ((a.e - t) \div 2) - 1)

\* Math.pow(a, 2)
FSquare(a) == FMul(a, a)

\* a === b on Numbers
FEq(a, b) == ~IsNaN(a) /\ ~IsNaN(b) /\ a = b

\* a < b on Numbers (false when either is NaN)
FLt(a, b) ==
    /\ ~IsNaN(a) /\ ~IsNaN(b)
    /\ a # b
    /\ IF a.k = "inf" THEN a.m < 0
       ELSE IF b.k = "inf" THEN b.m > 0
       ELSE IF Sign(a.m) # Sign(b.m) THEN a.m < b.m
       ELSE IF Top(a) # Top(b) THEN (IF a.m > 0 THEN Top(a) < Top(b) ELSE Top(a) > Top(b))
       ELSE LET e == Min(a.e, b.e)
            IN  a.m * 2 ^ (a.e - e) < b.m * 2 ^ (b.e - e)

\* JavaScript truthiness of a Number: NaN and 0 are falsy.
Truthy(a) == ~IsNaN(a) /\ ~IsZero(a)


(***************************************************************************)
(* d3-array helpers and Number conversion.                                 *)
(***************************************************************************)
\* The value of an absent result (d3.mean of no numbers).
Undefined == [k |-> "undef", m |-> 0, e |-> 0]

\* Tenths denoted by the text of a CSV cell that holds a decimal number.
Tenths(txt) ==
    CASE txt = "0.0" -> 0
      [] txt = "0.1" -> 1
      [] txt = "0.2" -> 2
      [] txt = "0.3" -> 3
      [] txt = "0.7" -> 7
      [] txt = "1.0" -> 10
      [] txt = "25" -> 250
      [] txt = "45" -> 450
      [] txt = "59" -> 590
      [] txt = "0" -> 0
      [] txt = "4" -> 40
      [] txt = "6" -> 60
      [] txt = "8" -> 80
      [] txt = "10" -> 100
      [] OTHER -> -1

\* Unary plus on the text of a CSV cell: the nearest Number to a decimal, 0
\* for an empty cell and NaN for text that is no number.
Number(txt) ==
    IF txt = "" THEN Zero
    ELSE IF Tenths(txt) < 0 THEN NaN
    ELSE FDiv(Canon(Tenths(txt), 0), Canon(10, 0))

\* a || 0
OrZero(a) == IF a.k = "undef" \/ ~Truthy(a) THEN Zero ELSE a

RECURSIVE d3sumFrom(_, _, _)
d3sumFrom(s, i, acc) ==
    IF i > Len(s) THEN acc
    ELSE d3sumFrom(s, i + 1, IF Truthy(s[i]) THEN FAdd(acc, s[i]) ELSE acc)

\* d3.sum: adds the values in order, skipping NaN (and 0).
d3sum(s) == d3sumFrom(s, 1, Zero)

RECURSIVE d3meanFrom(_, _, _, _)
d3meanFrom(s, i, count, acc) ==
    IF i > Len(s)
    THEN (IF count = 0 THEN Undefined ELSE FDiv(acc, FromInt(count)))
    ELSE IF IsNaN(s[i]) THEN d3meanFrom(s, i + 1, count, acc)
    ELSE d3meanFrom(s, i + 1, count + 1, FAdd(acc, s[i]))

\* d3.mean: the sum of the values that are not NaN over their number.
d3mean(s) == d3meanFrom(s, 1, 0, Zero)

\* array.map(f) is [i \in 1..Len(s) |-> f(s[i])]; array.filter is SelectSeq.
NotNaN(v) == ~IsNaN(v)
BothNotNaN(d) == ~IsNaN(d.x) /\ ~IsNaN(d.y)
Xs(data) == [i \in 1..Len(data) |-> data[i].x]
Ys(data) == [i \in 1..Len(data) |-> data[i].y]

(***************************************************************************)
(* The CSV file.  d3.csv yields one object per row with the text of each   *)
(* column; the model's file has two of the numeric columns.                *)
(***************************************************************************)
Columns == <<"Physical Activity Level", "Quality of Sleep">>
ColumnSet == {Columns[i] : i \in 1..Len(Columns)}
CellTexts == {"n/a", "0.1", "0.3"}
Rows == [ColumnSet -> CellTexts]

\* The files of at most MaxRows rows.
CsvFiles == UNION {[1..n -> Rows] : n \in 0..MaxRows}

(***************************************************************************)
(* CorrelationMatrix                                                       *)
(***************************************************************************)
\* this.variables: the columns the matrix is built over.
CM_variables == Columns

\* pairedData of calculateCorrelation: x and y zipped by index over the
\* shorter length, the pairs with a NaN dropped.
CM_pairedData(x, y) ==
    LET n == Min(Len(x), Len(y))
    IN  SelectSeq([i \in 1..n |-> [x |-> x[i], y |-> y[i]]], BothNotNaN)

\* calculateCorrelation without its two fallbacks to 0: the variant that C3
\* rules out.
CM_calculateCorrelation_noFallback(x, y) ==
    LET pairedData == CM_pairedData(x, y)
        meanX == OrZero(d3mean(Xs(pairedData)))
        meanY == OrZero(d3mean(Ys(pairedData)))
        numerator == d3sum([i \in 1..Len(pairedData) |->
            FMul(FSub(pairedData[i].x, meanX), FSub(pairedData[i].y, meanY))])
        denomX == FSqrt(d3sum([i \in 1..Len(pairedData) |->
            FSquare(FSub(pairedData[i].x, meanX))]))
        denomY == FSqrt(d3sum([i \in 1..Len(pairedData) |->
            FSquare(FSub(pairedData[i].y, meanY))]))
    IN  FDiv(numerator, FMul(denomX, denomY))

\* calculateCorrelation with the deviations of y taken from the mean of x in
\* the numerator: the variant that C7 rules out.
CM_calculateCorrelation_meanXTwice(x, y) ==
    LET pairedData == CM_pairedData(x, y)
    IN  IF Len(pairedData) < 2 THEN Zero
        ELSE LET meanX == OrZero(d3mean(Xs(pairedData)))
                 meanY == OrZero(d3mean(Ys(pairedData)))
                 numerator == d3sum([i \in 1..Len(pairedData) |->
                     FMul(FSub(pairedData[i].x, meanX), FSub(pairedData[i].y, meanX))])
                 denomX == FSqrt(d3sum([i \in 1..Len(pairedData) |->
                     FSquare(FSub(pairedData[i].x, meanX))]))
                 denomY == FSqrt(d3sum([i \in 1..Len(pairedData) |->
                     FSquare(FSub(pairedData[i].y, meanY))]))
             IN  IF FEq(denomX, Zero) \/ FEq(denomY, Zero) THEN Zero
                 ELSE FDiv(numerator, FMul(denomX, denomY))

CM_calculateCorrelation(x, y) ==
    LET pairedData == CM_pairedData(x, y)
    IN  IF Len(pairedData) < 2 THEN Zero
        ELSE LET meanX == OrZero(d3mean(Xs(pairedData)))
                 meanY == OrZero(d3mean(Ys(pairedData)))
                 numerator == d3sum([i \in 1..Len(pairedData) |->
                     FMul(FSub(pairedData[i].x, meanX), FSub(pairedData[i].y, meanY))])
                 denomX == FSqrt(d3sum([i \in 1..Len(pairedData) |->
                     FSquare(FSub(pairedData[i].x, meanX))]))
                 denomY == FSqrt(d3sum([i \in 1..Len(pairedData) |->
                     FSquare(FSub(pairedData[i].y, meanY))]))
             IN  IF FEq(denomX, Zero) \/ FEq(denomY, Zero) THEN Zero
                 ELSE FDiv(numerator, FMul(denomX, denomY))

\* numericData[variable]: the column's Numbers with the NaN filtered out.
CM_numericData(csvData, variable) ==
    SelectSeq([r \in 1..Len(csvData) |-> Number(csvData[r][variable])], NotNaN)

\* The fields initializeData sets when the CSV loads.
CM_loaded(csvData) ==
    LET n == Len(CM_variables)
        corr(i, j) == CM_calculateCorrelation(CM_numericData(csvData, CM_variables[i]),
                                              CM_numericData(csvData, CM_variables[j]))
        matrix == [i \in 1..n |-> [j \in 1..n |-> corr(i, j)]]
    IN  [variables |-> CM_variables,
         correlationMatrix |-> matrix,
         data |-> [p \in 1..(n * n) |->
                     [variable1 |-> CM_variables[((p - 1) \div n) + 1],
                      variable2 |-> CM_variables[((p - 1) % n) + 1],
                      correlation |-> matrix[((p - 1) \div n) + 1][((p - 1) % n) + 1]]]]

\* The fields initializeData sets when the load fails.
CM_failed ==
    [variables |-> <<"Error">>,
     correlationMatrix |-> <<<<Zero>>>>,
     data |-> <<[variable1 |-> "Error", variable2 |-> "Error", correlation |-> Zero]>>]

\* The fields after construction, before initializeData completes.
CM_initial == [variables |-> <<>>, correlationMatrix |-> <<>>, data |-> <<>>]

(***************************************************************************)
(* ScatterPlot                                                             *)
(***************************************************************************)
\* this.data of loadData: one point per row, the rows with a NaN dropped.
SP_loadedData(csvData, xVariable, yVariable) ==
    SelectSeq([r \in 1..Len(csvData) |->
                  [x |-> Number(csvData[r][xVariable]),
                   y |-> Number(csvData[r][yVariable])]], BothNotNaN)

SP_calculateCorrelation(data) ==
    IF Len(data) < 2 THEN Zero
    ELSE LET meanX == OrZero(d3mean(Xs(data)))
             meanY == OrZero(d3mean(Ys(data)))
             numerator == d3sum([i \in 1..Len(data) |->
                 FMul(FSub(data[i].x, meanX), FSub(data[i].y, meanY))])
             denomX == FSqrt(d3sum([i \in 1..Len(data) |-> FSquare(FSub(data[i].x, meanX))]))
             denomY == FSqrt(d3sum([i \in 1..Len(data) |-> FSquare(FSub(data[i].y, meanY))]))
         IN  IF FEq(denomX, Zero) \/ FEq(denomY, Zero) THEN Zero
             ELSE FDiv(numerator, FMul(denomX, denomY))

SP_calculateLinearRegression(data) ==
    IF Len(data) < 2 THEN [slope |-> Zero, intercept |-> Zero, r2 |-> Zero]
    ELSE LET n == FromInt(Len(data))
             sumX == d3sum(Xs(data))
             sumY == d3sum(Ys(data))
             sumXY == d3sum([i \in 1..Len(data) |-> FMul(data[i].x, data[i].y)])
             sumX2 == d3sum([i \in 1..Len(data) |-> FMul(data[i].x, data[i].x)])
             slope == FDiv(FSub(FMul(n, sumXY), FMul(sumX, sumY)),
                           FSub(FMul(n, sumX2), FMul(sumX, sumX)))
             intercept == FDiv(FSub(sumY, FMul(slope, sumX)), n)
             meanY == FDiv(sumY, n)
             totalSumSquares == d3sum([i \in 1..Len(data) |->
                 FSquare(FSub(data[i].y, meanY))])
             residualSumSquares == d3sum([i \in 1..Len(data) |->
                 FSquare(FSub(data[i].y, FAdd(FMul(slope, data[i].x), intercept)))])
             r2 == FSub(FromInt(1), FDiv(residualSumSquares, totalSumSquares))
         IN  [slope |-> slope, intercept |-> intercept, r2 |-> r2]

(***************************************************************************)
(* ActivitySweetSpot                                                       *)
(***************************************************************************)
\* this.data of initializeData: one point per row, nothing filtered.
AS_loadedData(csvData) ==
    [r \in 1..Len(csvData) |->
        [activity |-> Number(csvData[r]["Physical Activity Level"]),
         sleepQuality |-> Number(csvData[r]["Quality of Sleep"])]]

\* this.data when the load fails.
AS_failedData == <<[activity |-> Zero, sleepQuality |-> Zero]>>

AS_calculateLinearRegression(x, y) ==
    LET n == FromInt(Len(x))
        sumX == d3sum(x)
        sumY == d3sum(y)
        sumXY == d3sum([i \in 1..Len(x) |->
                     IF i <= Len(y) THEN FMul(x[i], y[i]) ELSE NaN])
        sumXX == d3sum([i \in 1..Len(x) |-> FMul(x[i], x[i])])
        slope == FDiv(FSub(FMul(n, sumXY), FMul(sumX, sumY)),
                      FSub(FMul(n, sumXX), FMul(sumX, sumX)))
        intercept == FDiv(FSub(sumY, FMul(slope, sumX)), n)
    IN  [slope |-> slope, intercept |-> intercept]

\* The regression addTrendLine draws.
AS_trendLine(data) ==
    AS_calculateLinearRegression([i \in 1..Len(data) |-> data[i].activity],
                                 [i \in 1..Len(data) |-> data[i].sleepQuality])

(***************************************************************************)
(* CategoryHeatmap                                                         *)
(***************************************************************************)
\* createBins' default numBins.
NumBins == 6

\* a >= b on Numbers (false when either is NaN)
FGe(a, b) == FEq(a, b) \/ FLt(b, a)

\* Math.floor
FFloor(a) ==
    IF a.k # "fin" THEN (IF a.k = "inf" THEN a ELSE NaN)
    ELSE IF a.e >= 0 THEN a
    ELSE IF Top(a) <= 0 THEN (IF a.m > 0 THEN Zero ELSE FromInt(-1))
    ELSE Canon(a.m \div (2 ^ (-a.e)), 0)

\* Math.ceil
FCeil(a) == FNeg(FFloor(FNeg(a)))

\* a.toFixed(1): the decimal with one digit nearest to a (the larger one of
\* two), as a number of tenths; "NaN" for NaN.
ToFixed1(a) ==
    IF a.k # "fin" THEN [nan |-> TRUE, tenths |-> 0]
    ELSE IF a.e >= 0 THEN [nan |-> FALSE, tenths |-> 10 * a.m * 2 ^ a.e]
    ELSE IF Top(a) <= -5 THEN [nan |-> FALSE, tenths |-> 0]
    ELSE LET d == 2 ^ (-a.e)
         IN  [nan |-> FALSE,
              tenths |-> Sign(a.m) * ((20 * Abs(a.m) + d) \div (2 * d))]

RECURSIVE d3extentFrom(_, _, _, _)
d3extentFrom(s, i, lo, hi) ==
    IF i > Len(s) THEN <<lo, hi>>
    ELSE IF IsNaN(s[i]) THEN d3extentFrom(s, i + 1, lo, hi)
    ELSE IF lo.k = "undef" THEN d3extentFrom(s, i + 1, s[i], s[i])
    ELSE d3extentFrom(s, i + 1, IF FLt(s[i], lo) THEN s[i] ELSE lo,
                                IF FLt(hi, s[i]) THEN s[i] ELSE hi)

\* d3.extent: the least and the greatest value, undefined for no values.
d3extent(s) == d3extentFrom(s, 1, Undefined, Undefined)

CH_createBins(values) ==
    LET extent == d3extent(values)
        globalMin == FFloor(extent[1])
        globalMax == FCeil(extent[2])
        binSize == FDiv(FSub(globalMax, globalMin), FromInt(NumBins))
    IN  [i \in 1..NumBins |->
            LET min == FAdd(globalMin, FMul(FromInt(i - 1), binSize))
                max == FAdd(globalMin, FMul(FromInt(i), binSize))
            IN  [min |-> min, max |-> max, label |-> <<ToFixed1(min), ToFixed1(max)>>]]

\* calculateCorrelation with the spread of y measured from the mean of x:
\* the variant that C2 rules out.
CH_calculateCorrelation_spreadFromMeanX(x, y) ==
    LET n == Min(Len(x), Len(y))
    IN  IF n < 2 THEN Zero
        ELSE LET meanX == OrZero(d3mean(x))
                 meanY == OrZero(d3mean(y))
                 numerator == d3sum([i \in 1..Len(x) |->
                     IF i <= Len(y) THEN FMul(FSub(x[i], meanX), FSub(y[i], meanY))
                     ELSE NaN])
                 denomX == FSqrt(d3sum([i \in 1..Len(x) |-> FSquare(FSub(x[i], meanX))]))
                 denomY == FSqrt(d3sum([i \in 1..Len(y) |-> FSquare(FSub(y[i], meanX))]))
             IN  IF FEq(denomX, Zero) \/ FEq(denomY, Zero) THEN Zero
                 ELSE FDiv(numerator, FMul(denomX, denomY))

CH_calculateCorrelation(x, y) ==
    LET n == Min(Len(x), Len(y))
    IN  IF n < 2 THEN Zero
        ELSE LET meanX == OrZero(d3mean(x))
                 meanY == OrZero(d3mean(y))
                 numerator == d3sum([i \in 1..Len(x) |->
                     IF i <= Len(y) THEN FMul(FSub(x[i], meanX), FSub(y[i], meanY))
                     ELSE NaN])
                 denomX == FSqrt(d3sum([i \in 1..Len(x) |-> FSquare(FSub(x[i], meanX))]))
                 denomY == FSqrt(d3sum([i \in 1..Len(y) |-> FSquare(FSub(y[i], meanY))]))
             IN  IF FEq(denomX, Zero) \/ FEq(denomY, Zero) THEN Zero
                 ELSE FDiv(numerator, FMul(denomX, denomY))

\* The columns loadData converts with unary plus.
CH_numericFields ==
    {"Person ID", "Stress Level", "Quality of Sleep", "Daily Steps", "Sleep Duration",
     "Age", "Heart Rate", "Physical Activity Level"}

\* this.data of loadData: of every row, the numeric columns the file has,
\* converted with unary plus.
CH_loadedData(csvData) ==
    [r \in 1..Len(csvData) |->
        [c \in (DOMAIN csvData[r]) \cap CH_numericFields |-> Number(csvData[r][c])]]

\* The points processData finds in the cell of bin1 and bin2.
CH_pointsInBin(validData, category1, category2, bin1, bin2) ==
    LET inBin(d) == /\ FGe(d[category1], bin1.min) /\ FLt(d[category1], bin1.max)
                    /\ FGe(d[category2], bin2.min) /\ FLt(d[category2], bin2.max)
    IN  SelectSeq(validData, inBin)

\* this.heatmapData as processData leaves it.
CH_processData(data, category1, category2) ==
    IF category1 = "" \/ category2 = "" \/ Len(data) = 0 THEN <<>>
    ELSE LET valid(d) == ~IsNaN(d[category1]) /\ ~IsNaN(d[category2])
             validData == SelectSeq(data, valid)
             category1Values == [i \in 1..Len(validData) |-> validData[i][category1]]
             category2Values == [i \in 1..Len(validData) |-> validData[i][category2]]
             category1Bins == CH_createBins(category1Values)
             category2Bins == CH_createBins(category2Values)
             cell(bin1, bin2) ==
                 LET pointsInBin == CH_pointsInBin(validData, category1, category2, bin1, bin2)
                     val1 == [i \in 1..Len(pointsInBin) |-> pointsInBin[i][category1]]
                     val2 == [i \in 1..Len(pointsInBin) |-> pointsInBin[i][category2]]
                 IN  IF Len(pointsInBin) > 0
                     THEN [category1Value |-> OrZero(d3mean(val1)),
                           category2Value |-> OrZero(d3mean(val2)),
                           category1Bin |-> bin1.label,
                           category2Bin |-> bin2.label,
                           count |-> Len(pointsInBin),
                           correlation |-> CH_calculateCorrelation(val1, val2)]
                     ELSE [category1Value |-> FDiv(FAdd(bin1.min, bin1.max), FromInt(2)),
                           category2Value |-> FDiv(FAdd(bin2.min, bin2.max), FromInt(2)),
                           category1Bin |-> bin1.label,
                           category2Bin |-> bin2.label,
                           count |-> 0,
                           correlation |-> Zero]
         IN  [p \in 1..(NumBins * NumBins) |->
                 cell(category1Bins[((p - 1) \div NumBins) + 1],
                      category2Bins[((p - 1) % NumBins) + 1])]

\* Largest number of data rows in a file of a page.
MaxPageRows == 2

\* The category buttons of index.html, in the order of the page, and how many
\* of them the model clicks.
CategoryButtonList ==
    <<"Sleep Duration", "Quality of Sleep", "Physical Activity Level",
      "Stress Level", "Heart Rate", "Daily Steps">>
MaxButtons == 3
CategoryButtons == {CategoryButtonList[i] : i \in 1..MaxButtons}

\* The records of the page's file: a column for every category button.
AppRows ==
    { [c \in CategoryButtons |->
          IF c = "Sleep Duration" THEN t[1]
          ELSE IF c = "Quality of Sleep" THEN t[2]
          ELSE IF c = "Physical Activity Level" THEN t[3]
          ELSE "0.1"] : t \in {<<"0.7", "0.3", "0.1">>, <<"0.2", "1.0", "0.3">>,
                                <<"n/a", "0.1", "1.0">>} }

\* Largest number of records in a file of the App's page.
MaxAppRows == 1

AppFiles == UNION {[1..n -> AppRows] : n \in 0..MaxAppRows}

\* What render puts in the heatmap's svg: the placeholder text of renderEmpty
\* for no cells, else the cells under the names of the two categories.
CH_rendered(view) ==
    IF Len(view.heatmapData) = 0
    THEN [shown |-> "Select two categories to see their correlation heatmap"]
    ELSE [shown |-> "cells", category1 |-> view.category1, category2 |-> view.category2,
          cells |-> Len(view.heatmapData)]

\* updateCategories: the fields after processData.
CH_updatedCategories(view, category1, category2) ==
    [view EXCEPT !.category1 = category1,
                 !.category2 = category2,
                 !.heatmapData = CH_processData(view.data, category1, category2)]

CH_initial == [data |-> <<>>, category1 |-> "", category2 |-> "", heatmapData |-> <<>>]

(***************************************************************************)
(* SleepQualityDemographics (src/unnamed/part_003)                         *)
(***************************************************************************)
\* The groupings the selector offers.
Groupings == {"age", "gender", "occupation"}

DemographicColumns == {"Age", "Gender", "Occupation", "Quality of Sleep"}

\* The people of the files the component is run on: their groups appear in
\* the file in an order of their own, which is not the alphabetical one.
Nurse == [Age |-> "45", Gender |-> "Male", Occupation |-> "Nurse", Activity |-> "0.3"]
Doctor == [Age |-> "25", Gender |-> "Female", Occupation |-> "Doctor", Activity |-> "1.0"]
Senior == [Age |-> "59", Gender |-> "Male", Occupation |-> "Doctor", Activity |-> "n/a"]

\* What they answered for Quality of Sleep, one of them with no number.
Answers ==
    { <<Nurse, "0.1">>, <<Nurse, "0.3">>, <<Doctor, "0.7">>, <<Doctor, "n/a">>,
      <<Senior, "0.1">>, <<Senior, "0.7">> }

DemographicRows ==
    { [c \in DemographicColumns |->
          IF c = "Age" THEN a[1].Age
          ELSE IF c = "Gender" THEN a[1].Gender
          ELSE IF c = "Occupation" THEN a[1].Occupation
          ELSE a[2]] : a \in Answers }

DemographicFiles == UNION {[1..n -> DemographicRows] : n \in 0..MaxRows}

\* The group of a record under a grouping.
SQ_group(d, grouping) ==
    IF grouping = "age"
    THEN LET age == Number(d["Age"])
         IN  IF FLt(age, FromInt(30)) THEN "20-29"
             ELSE IF FLt(age, FromInt(40)) THEN "30-39"
             ELSE IF FLt(age, FromInt(50)) THEN "40-49"
             ELSE "50+"
    ELSE IF grouping = "gender" THEN d["Gender"]
    ELSE IF grouping = "occupation" THEN d["Occupation"]
    ELSE ""

\* The keys of a Map filled in the order of s: every key once, at the place
\* of its first appearance.
RECURSIVE KeysFrom(_, _, _)
KeysFrom(s, i, keys) ==
    IF i > Len(s) THEN keys
    ELSE KeysFrom(s, i + 1,
                  IF \E k \in 1..Len(keys) : keys[k] = s[i] THEN keys
                  ELSE Append(keys, s[i]))

\* A variant that is not the code: the keys in the order of their last
\* appearance.
InsertionOrder_byLastAppearance(s) ==
    LET keys == {s[i] : i \in 1..Len(s)}
        Last(key) == CHOOSE i \in 1..Len(s) :
                        s[i] = key /\ \A j \in (i + 1)..Len(s) : s[j] # key
    IN  [i \in 1..Cardinality(keys) |->
            CHOOSE key \in keys :
                Cardinality({other \in keys : Last(other) < Last(key)}) = i - 1]

InsertionOrder(s) == KeysFrom(s, 1, <<>>)

RECURSIVE Flatten(_, _)
Flatten(lists, i) ==
    IF i > Len(lists) THEN <<>> ELSE lists[i] \o Flatten(lists, i + 1)

\* updateDataForGrouping: the quality of every record is pushed to the list
\* of the record's group, and the lists are flattened group after group.
SQ_updateDataForGrouping(csvData, grouping) ==
    LET entries == [r \in 1..Len(csvData) |->
                       [group |-> SQ_group(csvData[r], grouping),
                        quality |-> Number(csvData[r]["Quality of Sleep"]),
                        count |-> 1]]
        keys == InsertionOrder([r \in 1..Len(entries) |-> entries[r].group])
        InGroup(key) == LET Has(d) == d.group = key IN SelectSeq(entries, Has)
    IN  Flatten([k \in 1..Len(keys) |-> InGroup(keys[k])], 1)

SQ_errorData == <<[group |-> "Error", quality |-> Zero, count |-> 0]>>

\* initializeData: the CSV loads and is grouped, or the load fails.
SQ_initialized(view, csvData, ok) ==
    IF ok
    THEN [view EXCEPT !.data = SQ_updateDataForGrouping(csvData, view.currentGrouping)]
    ELSE [view EXCEPT !.data = SQ_errorData]

\* Place of s[j] in the ascending order of a NaN-free s.
Rank(s, j) ==
    1 + Cardinality({k \in 1..Len(s) : FLt(s[k], s[j]) \/ (s[k] = s[j] /\ k < j)})

\* The order statistics of a NaN-free s.
Ascending(s) == [i \in 1..Len(s) |-> s[CHOOSE j \in 1..Len(s) : Rank(s, j) = i]]

\* d3.min and d3.max: of the values that are not NaN.
d3min(values) ==
    LET sorted == Ascending(SelectSeq(values, NotNaN))
    IN  IF Len(sorted) = 0 THEN Undefined ELSE sorted[1]

d3max(values) ==
    LET sorted == Ascending(SelectSeq(values, NotNaN))
    IN  IF Len(sorted) = 0 THEN Undefined ELSE sorted[Len(sorted)]

\* d3.quantile (d3-array 2 and later, which d3.group belongs to): of the
\* values that are not NaN, in any order; 0 < p < 1.
d3quantile(values, p) ==
    LET sorted == Ascending(SelectSeq(values, NotNaN))
        n == Len(sorted)
        i == FMul(FromInt(n - 1), p)
        i0 == FFloor(i)
        value0 == sorted[IntOf(i0) + 1]
        value1 == sorted[IntOf(i0) + 2]
    IN  IF n = 0 THEN Undefined
        ELSE IF n < 2 THEN sorted[1]
        ELSE FAdd(value0, FMul(FSub(value1, value0), FSub(i, i0)))

d3median(values) == d3quantile(values, Canon(1, -1))

\* The groups render draws, in the order of the band scale's domain.
SQ_groups(data) == InsertionOrder([r \in 1..Len(data) |-> data[r].group])

\* The qualities of a group, as render maps them out of the group's data.
SQ_qualities(data, group) ==
    LET Has(d) == d.group = group
        groupData == SelectSeq(data, Has)
    IN  [r \in 1..Len(groupData) |-> groupData[r].quality]

\* What render draws and shows for a group.
SQ_summary(data, group) ==
    LET qualities == SQ_qualities(data, group)
    IN  [group |-> group,
         count |-> Len(qualities),
         median |-> OrZero(d3median(qualities)),
         q1 |-> OrZero(d3quantile(qualities, Canon(1, -2))),
         q3 |-> OrZero(d3quantile(qualities, Canon(3, -2))),
         min |-> d3min(qualities),
         max |-> d3max(qualities)]

\* A variant that is not the code: render sorts the qualities where they are
\* held, in this.data, not in the array it mapped out of it.
SQ_draw_sortingData(view) ==
    LET groups == SQ_groups(view.data)
        Sorted(group) ==
            LET Has(d) == d.group = group
                groupData == SelectSeq(view.data, Has)
                qualities == Ascending(SelectSeq(SQ_qualities(view.data, group), NotNaN))
            IN  [r \in 1..Len(groupData) |->
                    IF r <= Len(qualities)
                    THEN [groupData[r] EXCEPT !.quality = qualities[r]]
                    ELSE [groupData[r] EXCEPT !.quality = NaN]]
    IN  [view EXCEPT !.data = Flatten([k \in 1..Len(groups) |-> Sorted(groups[k])], 1),
                     !.drawn =
             [drawn |-> TRUE,
              groups |-> [k \in 1..Len(groups) |-> SQ_summary(view.data, groups[k])]]]

\* The drawing part of render.
SQ_draw(view) ==
    LET groups == SQ_groups(view.data)
    IN  [view EXCEPT !.drawn =
             [drawn |-> TRUE,
              groups |-> [k \in 1..Len(groups) |-> SQ_summary(view.data, groups[k])]]]

\* render: loads first when there is no data.
SQ_rendered(view, csvData, ok) ==
    SQ_draw(IF view.data = <<>> THEN SQ_initialized(view, csvData, ok) ELSE view)

\* updateGrouping: a failed load leaves the data and the drawing as they were.
SQ_updatedGrouping(view, csvData, grouping, ok) ==
    LET selected == [view EXCEPT !.currentGrouping = grouping]
    IN  IF ok
        THEN SQ_rendered([selected EXCEPT !.data = SQ_updateDataForGrouping(csvData, grouping)],
                         csvData, TRUE)
        ELSE selected

(***************************************************************************)
(* State                                                                   *)
(***************************************************************************)
VARIABLES
    csv,        \* the rows of the CSV file, as d3.csv delivers them
    cm,         \* CorrelationMatrix: variables, correlationMatrix, data
    sp,         \* the matrix's ScatterPlot: xVariable, yVariable, data, drawn
    ch,         \* CategoryHeatmap: data, category1, category2, heatmapData
    as,         \* ActivitySweetSpot: data, trend
    sq,         \* SleepQualityDemographics: currentGrouping, data, drawn
    bc,         \* BarChart with built-in datasets: data, datasets, drawn
    bcCsv,      \* BarChart backed by the CSV file: data, datasets, drawn
    bmi,        \* BMISleepProfile: data, and the stackedData it has drawn
    app,        \* App: constructed, selectedCategories, its call on the heatmap
    dom,        \* the texts of the page's elements and what the heatmap shows
    pending,    \* the asynchronous calls waiting at an await
    xs,         \* first argument of a call of a statistics function
    ys,         \* second argument of the call
    returned    \* the function called and the value it returned

vars ==
    <<csv, cm, sp, ch, as, sq, bc, bcCsv, bmi, app, dom, pending, xs, ys, returned>>

\* What render has drawn, before the first drawing.
NotDrawn == [drawn |-> FALSE]

SP_initial == [xVariable |-> "", yVariable |-> "", data |-> <<>>, drawn |-> NotDrawn]
AS_initial == [data |-> <<>>, trend |-> NotDrawn]
SQ_initial == [currentGrouping |-> "age", data |-> <<>>, drawn |-> NotDrawn]

\* BarChart with built-in datasets, after its constructor: initializeData has
\* filled datasets and selected sales.
BC_datasets ==
    [key \in {"sales", "population", "revenue"} |->
        IF key = "sales"
        THEN <<[label |-> "Q1", value |-> 12000], [label |-> "Q2", value |-> 15000],
               [label |-> "Q3", value |-> 18000], [label |-> "Q4", value |-> 21000],
               [label |-> "Q5", value |-> 16000]>>
        ELSE IF key = "population"
        THEN <<[label |-> "NYC", value |-> 8400000], [label |-> "LA", value |-> 3900000],
               [label |-> "Chicago", value |-> 2700000], [label |-> "Houston", value |-> 2300000],
               [label |-> "Phoenix", value |-> 1700000]>>
        ELSE <<[label |-> "Product A", value |-> 45000], [label |-> "Product B", value |-> 38000],
               [label |-> "Product C", value |-> 52000], [label |-> "Product D", value |-> 29000],
               [label |-> "Product E", value |-> 41000]>>]

BC_initial == [data |-> BC_datasets["sales"], datasets |-> BC_datasets, drawn |-> NotDrawn]

\* BarChart backed by the CSV file, after its constructor: data has its
\* initializer, datasets has none.
BCC_initial == [data |-> <<>>, datasets |-> Undefined, drawn |-> NotDrawn]

\* BMISleepProfile after its constructor.
BMI_initial == [data |-> <<>>, drawn |-> NotDrawn]

\* App after its field initializers, before the timer of its constructor
\* has constructed the components.
NoHeatmapCall == <<>>
App_initial ==
    [constructed |-> FALSE, selectedCategories |-> <<>>, heatmapCall |-> NoHeatmapCall]

\* The page as index.html delivers it; the heatmap's svg is empty.
DOM_initial ==
    [scatterDescription |-> "Click on a correlation cell to see the scatterplot",
     category1Display |-> "Select first category",
     category2Display |-> "Select second category",
     heatmapTitle |-> "Duration vs Quality Distribution",
     heatmapDescription |-> "Distribution heatmap showing sleep duration vs sleep quality",
     selected |-> {},
     heatmap |-> [shown |-> "nothing"]]

\* No statistics function has been called.
NoCall == [fn |-> "none"]

\* The page after the components are constructed, before any load completes.
Init ==
    /\ csv \in CsvFiles
    /\ cm = CM_initial
    /\ sp = SP_initial
    /\ ch = CH_initial
    /\ as = AS_initial
    /\ sq = SQ_initial
    /\ bc = BC_initial
    /\ bcCsv = BCC_initial
    /\ bmi = BMI_initial
    /\ app = App_initial
    /\ dom = DOM_initial
    /\ pending = {}
    /\ xs = <<>>
    /\ ys = <<>>
    /\ returned = NoCall

\* CorrelationMatrix.initializeData, started by the constructor: the CSV
\* loads, or the load fails.
CM_initializeData ==
    /\ cm = CM_initial
    /\ cm' \in {CM_loaded(csv), CM_failed}
    /\ UNCHANGED <<csv, sp, ch, as, sq, bc, bcCsv, bmi, app, dom, pending,
                   xs, ys, returned>>

\* ScatterPlot.render: nothing for no data, else the points, the regression
\* line and the r and R2 texts.
SP_render(plot) ==
    IF Len(plot.data) = 0 THEN plot
    ELSE [plot EXCEPT !.drawn = [drawn |-> TRUE,
                                 xVariable |-> plot.xVariable,
                                 yVariable |-> plot.yVariable,
                                 n |-> Len(plot.data),
                                 correlation |-> SP_calculateCorrelation(plot.data),
                                 regression |-> SP_calculateLinearRegression(plot.data)]]

\* The click handler of a matrix cell: loadData then render of the scatter
\* plot, for a cell of two different variables.
CM_cellClick ==
    /\ \E p \in 1..Len(cm.data), ok \in BOOLEAN :
          LET d == cm.data[p]
          IN  /\ d.variable1 # d.variable2
              /\ sp' = SP_render([sp EXCEPT
                         !.xVariable = d.variable1,
                         !.yVariable = d.variable2,
                         !.data = IF ok THEN SP_loadedData(csv, d.variable1, d.variable2)
                                  ELSE <<>>])
    /\ UNCHANGED <<csv, cm, ch, as, sq, bc, bcCsv, bmi, app, dom, pending,
                   xs, ys, returned>>

\* CategoryHeatmap.loadData, started by the constructor; a failed load leaves
\* this.data empty.
CH_loadData ==
    /\ ch.data = <<>>
    /\ \E ok \in BOOLEAN : ch' = [ch EXCEPT !.data = IF ok THEN CH_loadedData(csv) ELSE <<>>]
    /\ UNCHANGED <<csv, cm, sp, as, sq, bc, bcCsv, bmi, app, dom, pending,
                   xs, ys, returned>>

\* CategoryHeatmap.updateCategories for two selected categories.
CH_updateCategories ==
    /\ \E category1 \in ColumnSet, category2 \in ColumnSet :
          /\ category1 # category2
          /\ ch' = CH_updatedCategories(ch, category1, category2)
          /\ dom' = [dom EXCEPT !.heatmap = CH_rendered(ch')]
    /\ UNCHANGED <<csv, cm, sp, as, sq, bc, bcCsv, bmi, app, pending, xs, ys,
                   returned>>

\* ActivitySweetSpot.initializeData, started by the constructor.
AS_initializeData ==
    /\ as = AS_initial
    /\ \E ok \in BOOLEAN :
          as' = [as EXCEPT !.data = IF ok THEN AS_loadedData(csv) ELSE AS_failedData]
    /\ UNCHANGED <<csv, cm, sp, ch, sq, bc, bcCsv, bmi, app, dom, pending,
                   xs, ys, returned>>

\* ActivitySweetSpot.render: loads the data again when there is none, then
\* draws the points and the trend line.
AS_render ==
    /\ as.trend = NotDrawn
    /\ \E ok \in BOOLEAN :
          LET data == IF Len(as.data) # 0 THEN as.data
                      ELSE IF ok THEN AS_loadedData(csv) ELSE AS_failedData
          IN  as' = [data |-> data,
                     trend |-> [drawn |-> TRUE, n |-> Len(data),
                                regression |-> AS_trendLine(data)]]
    /\ UNCHANGED <<csv, cm, sp, ch, sq, bc, bcCsv, bmi, app, dom, pending,
                   xs, ys, returned>>

Next ==
    \/ CM_initializeData
    \/ CM_cellClick
    \/ CH_loadData
    \/ CH_updateCategories
    \/ AS_initializeData
    \/ AS_render

\* The components that read the two numeric columns, on one page.  They share
\* nothing but the file, which none of them changes, so each is also specified
\* on its own below, and so is the demographics component, whose files carry
\* the columns it groups by.
Spec == Init /\ [][Next]_vars

NextMatrix == CM_initializeData \/ CM_cellClick
SpecMatrix == Init /\ [][NextMatrix]_vars

\* Largest number of data rows in a file the heatmap bins.
MaxBinRows == 2

\* The files the heatmap is run on: a cell holds no number, a number with a
\* fraction or a whole number.
HeatmapTexts == {"n/a", "0.3", "1.0"}
HeatmapFiles == UNION {[1..n -> [ColumnSet -> HeatmapTexts]] : n \in 0..MaxBinRows}

InitHeatmap ==
    /\ csv \in HeatmapFiles
    /\ cm = CM_initial
    /\ sp = SP_initial
    /\ ch = CH_initial
    /\ as = AS_initial
    /\ sq = SQ_initial
    /\ bc = BC_initial
    /\ bcCsv = BCC_initial
    /\ bmi = BMI_initial
    /\ app = App_initial
    /\ dom = DOM_initial
    /\ pending = {}
    /\ xs = <<>>
    /\ ys = <<>>
    /\ returned = NoCall

NextHeatmap == CH_loadData \/ CH_updateCategories
SpecHeatmap == InitHeatmap /\ [][NextHeatmap]_vars

NextActivity == AS_initializeData \/ AS_render
SpecActivity == Init /\ [][NextActivity]_vars

\* SleepQualityDemographics.initializeData, started by the constructor.
SQ_initializeData ==
    /\ sq.data = <<>>
    /\ \E ok \in BOOLEAN : sq' = SQ_initialized(sq, csv, ok)
    /\ UNCHANGED <<csv, cm, sp, ch, as, bc, bcCsv, bmi, app, dom, pending,
                   xs, ys, returned>>

\* SleepQualityDemographics.render, called by the page.
SQ_render ==
    /\ \E ok \in BOOLEAN : sq' = SQ_rendered(sq, csv, ok)
    /\ UNCHANGED <<csv, cm, sp, ch, as, bc, bcCsv, bmi, app, dom, pending,
                   xs, ys, returned>>

\* SleepQualityDemographics.updateGrouping, called by the grouping selector.
SQ_updateGrouping ==
    /\ \E grouping \in Groupings, ok \in BOOLEAN :
          sq' = SQ_updatedGrouping(sq, csv, grouping, ok)
    /\ UNCHANGED <<csv, cm, sp, ch, as, bc, bcCsv, bmi, app, dom, pending,
                   xs, ys, returned>>

\* The files the components that hold records are run on together: a row
\* carries the columns of the demographics component and the numeric columns
\* the heatmap bins.
PageAnswers == {<<Nurse, "0.3">>, <<Senior, "0.1">>, <<Doctor, "0.7">>}


PageRows ==
    { [c \in DemographicColumns \cup ColumnSet |->
          IF c = "Age" THEN a[1].Age
          ELSE IF c = "Gender" THEN a[1].Gender
          ELSE IF c = "Occupation" THEN a[1].Occupation
          ELSE IF c = "Physical Activity Level" THEN a[1].Activity
          ELSE a[2]] : a \in PageAnswers }

PageFiles == UNION {[1..n -> PageRows] : n \in 0..MaxPageRows}

InitAggregations ==
    /\ csv \in PageFiles
    /\ cm = CM_initial
    /\ sp = SP_initial
    /\ ch = CH_initial
    /\ as = AS_initial
    /\ sq = SQ_initial
    /\ bc = BC_initial
    /\ bcCsv = BCC_initial
    /\ bmi = BMI_initial
    /\ app = App_initial
    /\ dom = DOM_initial
    /\ pending = {}
    /\ xs = <<>>
    /\ ys = <<>>
    /\ returned = NoCall

\* The heatmap and the demographics component side by side.
NextAggregations == NextHeatmap \/ SQ_initializeData \/ SQ_render \/ SQ_updateGrouping
SpecAggregations == InitAggregations /\ [][NextAggregations]_vars

\* The demographics component, on files that carry its columns.
InitDemographics ==
    /\ csv \in DemographicFiles
    /\ cm = CM_initial
    /\ sp = SP_initial
    /\ ch = CH_initial
    /\ as = AS_initial
    /\ sq = SQ_initial
    /\ bc = BC_initial
    /\ bcCsv = BCC_initial
    /\ bmi = BMI_initial
    /\ app = App_initial
    /\ dom = DOM_initial
    /\ pending = {}
    /\ xs = <<>>
    /\ ys = <<>>
    /\ returned = NoCall

NextDemographics == SQ_initializeData \/ SQ_render \/ SQ_updateGrouping
SpecDemographics == InitDemographics /\ [][NextDemographics]_vars

(***************************************************************************)
(* The statistics functions called on their own.                           *)
(***************************************************************************)
\* The Numbers the cells of the file convert to.
Numbers == {Number(txt) : txt \in CellTexts}

\* The arrays of at most MaxRows Numbers.
Arrays == UNION {[1..n -> Numbers] : n \in 0..MaxRows}

NoNaN(s) == \A i \in 1..Len(s) : ~IsNaN(s[i])

\* The points {x, y} of two arrays of one length.
Zip(x, y) == [i \in 1..Len(x) |-> [x |-> x[i], y |-> y[i]]]

\* A call about to be made on two arrays.
InitCalls ==
    /\ csv = <<>>
    /\ cm = CM_initial
    /\ sp = SP_initial
    /\ ch = CH_initial
    /\ as = AS_initial
    /\ sq = SQ_initial
    /\ bc = BC_initial
    /\ bcCsv = BCC_initial
    /\ bmi = BMI_initial
    /\ app = App_initial
    /\ dom = DOM_initial
    /\ pending = {}
    /\ xs \in Arrays
    /\ ys \in Arrays
    /\ returned = NoCall

\* CorrelationMatrix.calculateCorrelation(xs, ys).  The function pairs by
\* index over the shorter array and drops the pairs with a NaN itself.
CallMatrixCorrelation ==
    /\ returned = NoCall
    /\ returned' = [fn |-> "CorrelationMatrix.calculateCorrelation",
                    value |-> CM_calculateCorrelation(xs, ys)]
    /\ UNCHANGED <<csv, cm, sp, ch, as, sq, bc, bcCsv, bmi, app, dom,
                   pending, xs, ys>>

\* CategoryHeatmap.calculateCorrelation(xs, ys).  processData passes it the
\* values of records it has filtered, so no argument holds a NaN.
CallHeatmapCorrelation ==
    /\ returned = NoCall
    /\ NoNaN(xs) /\ NoNaN(ys)
    /\ returned' = [fn |-> "CategoryHeatmap.calculateCorrelation",
                    value |-> CH_calculateCorrelation(xs, ys)]
    /\ UNCHANGED <<csv, cm, sp, ch, as, sq, bc, bcCsv, bmi, app, dom,
                   pending, xs, ys>>

\* ScatterPlot.calculateCorrelation(data) on the points loadData keeps: one
\* per record, none with a NaN.
CallScatterCorrelation ==
    /\ returned = NoCall
    /\ Len(xs) = Len(ys) /\ NoNaN(xs) /\ NoNaN(ys)
    /\ returned' = [fn |-> "ScatterPlot.calculateCorrelation",
                    value |-> SP_calculateCorrelation(Zip(xs, ys))]
    /\ UNCHANGED <<csv, cm, sp, ch, as, sq, bc, bcCsv, bmi, app, dom,
                   pending, xs, ys>>

\* ScatterPlot.calculateLinearRegression(data) on the points loadData keeps.
CallScatterRegression ==
    /\ returned = NoCall
    /\ Len(xs) = Len(ys) /\ NoNaN(xs) /\ NoNaN(ys)
    /\ returned' = [fn |-> "ScatterPlot.calculateLinearRegression",
                    value |-> SP_calculateLinearRegression(Zip(xs, ys))]
    /\ UNCHANGED <<csv, cm, sp, ch, as, sq, bc, bcCsv, bmi, app, dom,
                   pending, xs, ys>>

\* ActivitySweetSpot.calculateLinearRegression(x, y) on the two columns of
\* this.data, which initializeData converts without filtering.
CallActivityRegression ==
    /\ returned = NoCall
    /\ Len(xs) = Len(ys)
    /\ returned' = [fn |-> "ActivitySweetSpot.calculateLinearRegression",
                    value |-> AS_calculateLinearRegression(xs, ys)]
    /\ UNCHANGED <<csv, cm, sp, ch, as, sq, bc, bcCsv, bmi, app, dom,
                   pending, xs, ys>>

NextCalls ==
    \/ CallMatrixCorrelation
    \/ CallHeatmapCorrelation
    \/ CallScatterCorrelation
    \/ CallScatterRegression
    \/ CallActivityRegression

SpecCalls == InitCalls /\ [][NextCalls]_vars

(***************************************************************************)
(* Properties                                                              *)
(***************************************************************************)
CorrelationFns == {"CorrelationMatrix.calculateCorrelation",
                   "CategoryHeatmap.calculateCorrelation",
                   "ScatterPlot.calculateCorrelation"}

RegressionFns == {"ScatterPlot.calculateLinearRegression",
                  "ActivitySweetSpot.calculateLinearRegression"}

\* C1: every entry of the loaded correlation matrix is the correlation over
\* exactly the records in which both fields are numbers, each x paired with
\* the y of its own record.  (SpecMatrix; the code does not keep it.)
C1_EntriesOverCompleteRecords ==
    cm.variables = CM_variables =>
        \A i, j \in 1..Len(CM_variables) :
            LET complete == SP_loadedData(csv, CM_variables[i], CM_variables[j])
            IN  cm.correlationMatrix[i][j]
                    = CM_calculateCorrelation(Xs(complete), Ys(complete))

\* C2: every calculateCorrelation returns for (xs, ys) the value it returns
\* for (ys, xs), whatever the lengths of the two arrays.  (SpecCalls)
C2_Symmetric ==
    /\ returned.fn = "CorrelationMatrix.calculateCorrelation"
          => returned.value = CM_calculateCorrelation(ys, xs)
    /\ returned.fn = "CategoryHeatmap.calculateCorrelation"
          => returned.value = CH_calculateCorrelation(ys, xs)
    /\ returned.fn = "ScatterPlot.calculateCorrelation"
          => returned.value = SP_calculateCorrelation(Zip(ys, xs))

\* C2 on arrays of different lengths and contents with a correlation that is
\* not the fallback 0.
C2_Witness ==
    /\ returned.fn = "CorrelationMatrix.calculateCorrelation"
    /\ Len(xs) # Len(ys)
    /\ NoNaN(xs) /\ NoNaN(ys)
    /\ ~IsZero(returned.value)
    /\ returned.value = CM_calculateCorrelation(ys, xs)

\* C3: every calculateCorrelation returns exactly 0 when fewer than 2 paired
\* samples remain: no sample, one pair, or all pairs but one dropped for a
\* NaN.  (SpecCalls)
C3_FewSamplesGiveZero ==
    /\ (/\ returned.fn = "CorrelationMatrix.calculateCorrelation"
        /\ Len(CM_pairedData(xs, ys)) < 2) => returned.value = Zero
    /\ (/\ returned.fn = "CategoryHeatmap.calculateCorrelation"
        /\ Min(Len(xs), Len(ys)) < 2) => returned.value = Zero
    /\ (/\ returned.fn = "ScatterPlot.calculateCorrelation"
        /\ Len(xs) < 2) => returned.value = Zero

\* C3 where the arrays hold two pairs or more and the NaN leave one.
C3_Witness ==
    /\ returned.fn = "CorrelationMatrix.calculateCorrelation"
    /\ Min(Len(xs), Len(ys)) >= 2
    /\ Len(CM_pairedData(xs, ys)) = 1
    /\ returned.value = Zero

One == FromInt(1)

\* All the Numbers of the array are the same Number.
AllSame(s) == \A i, j \in 1..Len(s) : s[i] = s[j]

\* C4: every calculateCorrelation returns exactly 0 when all the x or all the
\* y of the paired samples are identical.  (SpecCalls; the code does not
\* keep it.)
C4_ZeroVarianceGivesZero ==
    (/\ returned.fn \in CorrelationFns
     /\ Len(xs) = Len(ys) /\ NoNaN(xs) /\ NoNaN(ys)
     /\ AllSame(xs) \/ AllSame(ys))
        => returned.value = Zero

\* C5: the correlation of an array of two or more distinct values with itself
\* is 1.  (SpecCalls; the code does not keep it.)
C5_SelfCorrelationIsOne ==
    (/\ returned.fn = "CorrelationMatrix.calculateCorrelation"
     /\ xs = ys /\ NoNaN(xs)
     /\ ~AllSame(xs))
        => returned.value = One

\* C6: the value calculateCorrelation returns for samples that vary in x and
\* in y is finite and lies in [-1, 1].  (SpecCalls; the code does not keep it.)
C6_WithinUnitInterval ==
    (/\ returned.fn \in CorrelationFns
     /\ Len(xs) = Len(ys) /\ NoNaN(xs) /\ NoNaN(ys)
     /\ ~AllSame(xs) /\ ~AllSame(ys))
        => /\ IsFinite(returned.value)
           /\ ~FLt(One, returned.value)
           /\ ~FLt(returned.value, FNeg(One))

\* C7: once initializeData has finished, the matrix is n x n for the n
\* variables, this.data holds one entry for every ordered pair (i, j), in row
\* order, and matrix[i][j] = matrix[j][i] for all i and j.  (SpecMatrix)
C7_SquareSymmetricMatrix ==
    cm # CM_initial =>
        LET n == Len(cm.variables)
        IN  /\ cm.variables \in {CM_variables, <<"Error">>}
            /\ Len(cm.correlationMatrix) = n
            /\ \A i \in 1..n : Len(cm.correlationMatrix[i]) = n
            /\ \A i, j \in 1..n : cm.correlationMatrix[i][j] = cm.correlationMatrix[j][i]
            /\ Len(cm.data) = n * n
            /\ \A i, j \in 1..n :
                  cm.data[(i - 1) * n + j] =
                      [variable1 |-> cm.variables[i],
                       variable2 |-> cm.variables[j],
                       correlation |-> cm.correlationMatrix[i][j]]

\* C7 on a file whose two fields have different numbers of numeric values and
\* a correlation off the diagonal that is not the fallback 0.
C7_Witness ==
    /\ cm.variables = CM_variables
    /\ Len(CM_numericData(csv, CM_variables[1])) # Len(CM_numericData(csv, CM_variables[2]))
    /\ ~IsZero(cm.correlationMatrix[1][2])
    /\ cm.correlationMatrix[1][2] = cm.correlationMatrix[2][1]

\* C8: every calculateLinearRegression returns {slope: 0, intercept: 0,
\* r2: 0} for fewer than 2 samples.  (SpecCalls; the code does not keep it.)
C8_FewSamplesGiveZeroLine ==
    (/\ returned.fn \in RegressionFns
     /\ Len(xs) < 2)
        => /\ DOMAIN returned.value = {"slope", "intercept", "r2"}
           /\ returned.value.slope = Zero
           /\ returned.value.intercept = Zero
           /\ returned.value.r2 = Zero

\* C9: for 2 samples or more whose x are all identical, every
\* calculateLinearRegression returns slope 0 and a finite intercept.
\* (SpecCalls; the code does not keep it.)
C9_VerticalDataGivesZeroSlope ==
    (/\ returned.fn \in RegressionFns
     /\ Len(xs) >= 2 /\ NoNaN(xs) /\ NoNaN(ys)
     /\ AllSame(xs))
        => /\ returned.value.slope = Zero
           /\ IsFinite(returned.value.intercept)

\* C10: for 2 samples or more whose y are all identical and whose x are not,
\* the r2 of calculateLinearRegression is a finite Number, never NaN.
\* (SpecCalls; the code does not keep it.)
C10_R2Defined ==
    (/\ returned.fn = "ScatterPlot.calculateLinearRegression"
     /\ Len(xs) >= 2
     /\ AllSame(ys) /\ ~AllSame(xs))
        => IsFinite(returned.value.r2)

(***************************************************************************)
(* The scatter plot's statistics on exactly linear data.                   *)
(***************************************************************************)
\* Largest x of the exactly linear samples.
MaxX == 8

\* Slopes a and intercepts b of the lines the samples are taken from.
Slopes == {-1, 1, 2}
Intercepts == {-1, 0, 3}

\* The integer n is a Number: converting it rounds nothing away.
IsExact(n) == FromInt(n) = Canon(n, 0)

\* Two samples or more with ys[i] = a * xs[i] + b exactly, every x and y an
\* integer that is a Number.
InitLinear ==
    /\ csv = <<>>
    /\ cm = CM_initial
    /\ sp = SP_initial
    /\ ch = CH_initial
    /\ as = AS_initial
    /\ sq = SQ_initial
    /\ bc = BC_initial
    /\ bcCsv = BCC_initial
    /\ bmi = BMI_initial
    /\ app = App_initial
    /\ dom = DOM_initial
    /\ pending = {}
    /\ \E ks \in UNION {[1..n -> 1..MaxX] : n \in 2..MaxRows}, a \in Slopes, b \in Intercepts :
          /\ \A i \in 1..Len(ks) : IsExact(ks[i]) /\ IsExact(a * ks[i] + b)
          /\ xs = [i \in 1..Len(ks) |-> FromInt(ks[i])]
          /\ ys = [i \in 1..Len(ks) |-> FromInt(a * ks[i] + b)]
    /\ returned = NoCall

NextLinear == CallScatterRegression \/ CallScatterCorrelation

SpecLinear == InitLinear /\ [][NextLinear]_vars

\* C11: for samples with ys[i] = a * xs[i] + b exactly and two distinct x or
\* more, calculateLinearRegression returns slope a, intercept b and, for
\* a # 0, r2 = 1.  (SpecLinear; the code does not keep it.)
C11_ExactLineRecovered ==
    (/\ returned.fn = "ScatterPlot.calculateLinearRegression"
     /\ ~AllSame(xs))
        => \A a \in Slopes, b \in Intercepts :
              (\A i \in 1..Len(xs) : IntOf(ys[i]) = a * IntOf(xs[i]) + b)
                  => /\ returned.value.slope = FromInt(a)
                     /\ returned.value.intercept = FromInt(b)
                     /\ returned.value.r2 = One

(***************************************************************************)
(* Properties of the heatmap's binning (SpecHeatmap).                      *)
(***************************************************************************)
\* The records processData bins: those with a number in both categories.
CH_validData ==
    LET valid(d) == ~IsNaN(d[ch.category1]) /\ ~IsNaN(d[ch.category2])
    IN  SelectSeq(ch.data, valid)

\* The values of a category over the binned records, and their extent
\* rounded outwards to whole numbers.
CH_values(category) == [i \in 1..Len(CH_validData) |-> CH_validData[i][category]]
CH_globalMin(category) == FFloor(d3extent(CH_values(category))[1])
CH_globalMax(category) == FCeil(d3extent(CH_values(category))[2])

\* The cells of the heatmap in the i-th bin of category1.
CellsOfBin1(i) == ((i - 1) * NumBins + 1)..(i * NumBins)

\* C12: a record whose category1 value equals globalMax = ceil(max) is
\* counted in the last bin of category1 (its category2 value lying below
\* that category's globalMax).  (SpecHeatmap; the code does not keep it.)
C12_LastBinInclusive ==
    ch.heatmapData # <<>> =>
        \A i \in 1..Len(CH_validData) :
            (/\ CH_globalMin(ch.category1) # CH_globalMax(ch.category1)
             /\ CH_validData[i][ch.category1] = CH_globalMax(ch.category1)
             /\ FLt(CH_validData[i][ch.category2], CH_globalMax(ch.category2)))
                => \E p \in CellsOfBin1(NumBins) : ch.heatmapData[p].count > 0

RECURSIVE CountSum(_, _)
\* The sum of the count fields of the first n cells.
CountSum(cells, n) == IF n = 0 THEN 0 ELSE CountSum(cells, n - 1) + cells[n].count

\* C13: the counts of all the cells of the heatmap sum to the number of
\* records that hold a number in both selected categories.  (SpecHeatmap; the
\* code does not keep it.)
C13_CountsSumToValidRecords ==
    ch.heatmapData # <<>> =>
        CountSum(ch.heatmapData, Len(ch.heatmapData)) = Len(CH_validData)

\* C14: for values with floor(min) < ceil(max), createBins returns NumBins
\* bins, the first starting at globalMin, each ending where the next starts
\* and none ending before it starts, and every value lies in a bin
\* [min, max).  (SpecHeatmap; the code does not keep it.)
C14_BinsPartitionTheRange ==
    (/\ ch.heatmapData # <<>>
     /\ Len(CH_validData) > 0
     /\ CH_globalMin(ch.category1) # CH_globalMax(ch.category1))
        => LET values == CH_values(ch.category1)
               bins == CH_createBins(values)
           IN  /\ Len(bins) = NumBins
               /\ bins[1].min = CH_globalMin(ch.category1)
               /\ \A i \in 1..(NumBins - 1) : bins[i].max = bins[i + 1].min
               /\ \A i \in 1..NumBins : ~FLt(bins[i].max, bins[i].min)
               /\ \A j \in 1..Len(values) :
                     \E i \in 1..NumBins :
                        FGe(values[j], bins[i].min) /\ FLt(values[j], bins[i].max)

\* C15: for no values, or values with floor(min) = ceil(max), createBins
\* returns NumBins bins of width 0 with one label and no NaN boundary, and
\* processData puts every value in the first bin.  (SpecHeatmap; the code
\* does not keep it.)
C15_DegenerateBins ==
    (/\ ch.heatmapData # <<>>
     /\ \/ Len(CH_validData) = 0
        \/ CH_globalMin(ch.category1) = CH_globalMax(ch.category1))
        => LET values == CH_values(ch.category1)
               bins == CH_createBins(values)
           IN  /\ Len(bins) = NumBins
               /\ \A i \in 1..NumBins :
                     /\ ~IsNaN(bins[i].min) /\ ~IsNaN(bins[i].max)
                     /\ bins[i].min = bins[i].max
                     /\ bins[i].label = bins[1].label
               /\ \A j \in 1..Len(values) :
                     FGe(values[j], bins[1].min) /\ FLt(values[j], bins[1].max)

(***************************************************************************)
(* Properties of SleepQualityDemographics (SpecDemographics)               *)
(***************************************************************************)
\* The drawing shows the data of the file under some grouping: render has
\* drawn the data the component holds, and the data is no error placeholder.
SQ_drawnFromFile ==
    /\ sq.drawn.drawn
    /\ sq.data # SQ_errorData
    /\ sq.drawn = SQ_draw(sq).drawn

HasQuality(d) == ~IsNaN(Number(d["Quality of Sleep"]))

\* C16: the counts of the groups sum to the number of records of the file
\* that hold a number in Quality of Sleep, and a record that holds none is
\* counted in no group.  (SpecDemographics; the code does not keep it.)
C16_CountsSumToRecordsWithQuality ==
    SQ_drawnFromFile =>
        /\ CountSum(sq.drawn.groups, Len(sq.drawn.groups)) = Len(SelectSeq(csv, HasQuality))
        /\ \A k \in 1..Len(sq.drawn.groups) :
              sq.drawn.groups[k].count =
                  Len(SelectSeq(SQ_qualities(sq.data, sq.drawn.groups[k].group), NotNaN))

\* The integer v / 2^e of a finite v with no bit below 2^e.
Scaled(v, e) == v.m * 2 ^ (v.e - e)

\* q is the quantile of order quarters/4 of NaN-free values by linear
\* interpolation between the two order statistics that bracket the position
\* (n - 1) * quarters / 4 (type 7), up to the rounding of the difference, the
\* product and the sum that compute it.
IsType7Quantile(q, values, quarters) ==
    LET sorted == Ascending(values)
        n == Len(sorted)
        h == (n - 1) * quarters
        lo == sorted[(h \div 4) + 1]
        hi == sorted[IF h % 4 = 0 THEN (h \div 4) + 1 ELSE (h \div 4) + 2]
        e == Min(Min(lo.e, hi.e), q.e) - 2
        exact == Scaled(lo, e) + ((h % 4) * (Scaled(hi, e) - Scaled(lo, e))) \div 4
        largest == IF Abs(lo.m) * 2 ^ (lo.e - e) > Abs(hi.m) * 2 ^ (hi.e - e)
                   THEN Abs(Scaled(lo, e)) ELSE Abs(Scaled(hi, e))
    IN  /\ n > 0
        /\ q.k = "fin"
        /\ Abs(Scaled(q, e) - exact) * 2 ^ Prec
              <= 3 * Abs(Scaled(hi, e) - Scaled(lo, e)) + largest

\* a <= b between two numbers.
Leq(a, b) == a.k \in {"fin", "inf"} /\ b.k \in {"fin", "inf"} /\ ~FLt(b, a)

\* C17: the median, q1 and q3 drawn for a group are the quantiles of order
\* 0.5, 0.25 and 0.75 of the group's values under type 7 interpolation, and
\* min <= q1 <= median <= q3 <= max.  (SpecDemographics; the code does not
\* keep it for a group that holds no number.)
C17_QuartilesOfEveryGroup ==
    SQ_drawnFromFile =>
        \A k \in 1..Len(sq.drawn.groups) :
            LET summary == sq.drawn.groups[k]
                values == SelectSeq(SQ_qualities(sq.data, summary.group), NotNaN)
            IN  /\ IsType7Quantile(summary.median, values, 2)
                /\ IsType7Quantile(summary.q1, values, 1)
                /\ IsType7Quantile(summary.q3, values, 3)
                /\ Leq(summary.min, summary.q1)
                /\ Leq(summary.q1, summary.median)
                /\ Leq(summary.median, summary.q3)
                /\ Leq(summary.q3, summary.max)

\* The first record of the file that belongs to a group under a grouping.
FirstAppearance(group, grouping) ==
    CHOOSE r \in 1..Len(csv) :
        /\ SQ_group(csv[r], grouping) = group
        /\ \A j \in 1..(r - 1) : SQ_group(csv[j], grouping) # group

\* C18: under every grouping, the groups are drawn, and their records are
\* held, in the order in which the groups first appear in the file: every
\* group of the file once, a group whose first record comes earlier before a
\* group whose first record comes later.  The order depends on the file and
\* the grouping only, so grouping again gives it again.  (SpecDemographics)
C18_GroupsInOrderOfFirstAppearance ==
    SQ_drawnFromFile =>
        \E grouping \in Groupings :
            LET groups == sq.drawn.groups
            IN  /\ {groups[k].group : k \in 1..Len(groups)}
                      = {SQ_group(csv[r], grouping) : r \in 1..Len(csv)}
                /\ \A k, l \in 1..Len(groups) :
                      k < l => FirstAppearance(groups[k].group, grouping)
                                  < FirstAppearance(groups[l].group, grouping)
                /\ \A i, j \in 1..Len(sq.data) :
                      i < j => FirstAppearance(sq.data[i].group, grouping)
                                  <= FirstAppearance(sq.data[j].group, grouping)

\* After a change of the grouping, two groups are drawn whose order of first
\* appearance is not the alphabetical one, the first of them with a later
\* record as well.
C18_Witness ==
    /\ SQ_drawnFromFile
    /\ sq.currentGrouping = "gender"
    /\ Len(sq.drawn.groups) = 2
    /\ sq.drawn.groups[1].group = "Male"
    /\ sq.drawn.groups[2].group = "Female"
    /\ Len(csv) = 3
    /\ csv[3]["Gender"] = "Male"

(***************************************************************************)
(* Properties of the components that hold records (SpecAggregations)       *)
(***************************************************************************)
\* C19: whatever processData, render, updateCategories and updateGrouping
\* have computed, the records a component holds are the records its loader
\* produced from the file, in the loader's order.  (SpecAggregations)
C19_LoadedRecordsUnchanged ==
    /\ ch.data \in {<<>>, CH_loadedData(csv)}
    /\ sq.data \in {<<>>, SQ_errorData}
                      \cup {SQ_updateDataForGrouping(csv, grouping) : grouping \in Groupings}

\* The heatmap has binned its records and the demographics component has
\* drawn the quartiles of a group whose records are not held in ascending
\* order of quality.
C19_Witness ==
    /\ ch.heatmapData # <<>>
    /\ SQ_drawnFromFile
    /\ \E i, j \in 1..Len(sq.data) :
          /\ i < j
          /\ sq.data[i].group = sq.data[j].group
          /\ FLt(sq.data[j].quality, sq.data[i].quality)

(***************************************************************************)
(* Properties of ActivitySweetSpot on an empty file (SpecActivity)         *)
(***************************************************************************)
\* C20: for a file with no rows, the regression of the trend line takes its
\* fallback, slope 0 and intercept 0, so that no NaN and no Infinity is
\* handed to the drawing.  (SpecActivity; the code does not keep it.)
C20_EmptyFileGivesFallbacks ==
    (/\ Len(csv) = 0
     /\ as.trend # NotDrawn
     /\ as.data = <<>>)
        => /\ as.trend.regression.slope = Zero
           /\ as.trend.regression.intercept = Zero

(***************************************************************************)
(* Drill-down from the matrix to the scatter plot, await by await          *)
(* (SpecDrillDown)                                                         *)
(***************************************************************************)
\* Largest number of asynchronous calls of one kind waiting at a time.
MaxPending == 2

\* An identifier no waiting call has.
FreshId == CHOOSE id \in 1..(Cardinality(pending) + 1) : \A c \in pending : c.id # id

\* A click on cell p of the matrix: for a cell of two different variables
\* the handler sets the description and enters loadData, which sets xVariable
\* and yVariable and waits for the CSV file; for any other cell it does
\* nothing.
CM_clickStartOn(p) ==
    LET d == cm.data[p]
    IN  /\ d.variable1 # d.variable2
        /\ dom' = [dom EXCEPT !.scatterDescription =
                      <<"Relationship between", d.variable1, "and", d.variable2>>]
        /\ sp' = [sp EXCEPT !.xVariable = d.variable1, !.yVariable = d.variable2]
        /\ pending' = pending \cup
              {[call |-> "ScatterPlot.loadData", id |-> FreshId, at |-> "d3.csv",
                xVariable |-> d.variable1, yVariable |-> d.variable2]}
        /\ UNCHANGED <<csv, cm, ch, as, sq, bc, bcCsv, bmi, app, xs, ys,
                       returned>>

CM_clickStart ==
    /\ Cardinality(pending) < MaxPending
    /\ \E p \in 1..Len(cm.data) : CM_clickStartOn(p)

\* The CSV file of a waiting loadData arrives, or its load fails: loadData
\* sets data from its own arguments and returns to the handler's await.
SP_loadDataResume ==
    /\ \E c \in pending, ok \in BOOLEAN :
          /\ c.call = "ScatterPlot.loadData"
          /\ c.at = "d3.csv"
          /\ sp' = [sp EXCEPT !.data = IF ok THEN SP_loadedData(csv, c.xVariable, c.yVariable)
                                        ELSE <<>>]
          /\ pending' = (pending \ {c}) \cup {[c EXCEPT !.at = "loadData"]}
    /\ UNCHANGED <<csv, cm, ch, as, sq, bc, bcCsv, bmi, app, dom, xs, ys,
                   returned>>

\* The handler resumes after loadData and renders the scatter plot.
CM_clickRender ==
    /\ \E c \in pending :
          /\ c.call = "ScatterPlot.loadData"
          /\ c.at = "loadData"
          /\ sp' = SP_render(sp)
          /\ pending' = pending \ {c}
    /\ UNCHANGED <<csv, cm, ch, as, sq, bc, bcCsv, bmi, app, dom, xs, ys,
                   returned>>

NextDrillDown == CM_initializeData \/ CM_clickStart \/ SP_loadDataResume \/ CM_clickRender
\* On the files of at most MaxBinRows rows.
SpecDrillDown == InitHeatmap /\ [][NextDrillDown]_vars

\* C21: whatever the order in which the steps of the click handlers run, the
\* correlation, the regression and the number of points the scatter plot
\* has drawn are those of the data of the variable pair its title and axis
\* labels name.  (SpecDrillDown; the code does not keep it.)
C21_DrawnDataMatchesLabels ==
    sp.drawn # NotDrawn =>
        LET data == SP_loadedData(csv, sp.drawn.xVariable, sp.drawn.yVariable)
        IN  /\ sp.drawn.n = Len(data)
            /\ sp.drawn.correlation = SP_calculateCorrelation(data)
            /\ sp.drawn.regression = SP_calculateLinearRegression(data)

\* C22: a click on any cell of the matrix sets the description to name the
\* cell's two variables and starts the load, and once no load is waiting the
\* scatter plot drawn is the plot of the two variables the description
\* names.  (SpecDrillDown; the code does not keep it.)
C22_AnyCellClickDrillsDown ==
    /\ Cardinality(pending) < MaxPending =>
          \A p \in 1..Len(cm.data) : ENABLED CM_clickStartOn(p)
    /\ (pending = {} /\ dom.scatterDescription # DOM_initial.scatterDescription) =>
          /\ sp.drawn # NotDrawn
          /\ sp.drawn.xVariable = dom.scatterDescription[2]
          /\ sp.drawn.yVariable = dom.scatterDescription[4]
          /\ sp.drawn.regression =
                SP_calculateLinearRegression(
                    SP_loadedData(csv, dom.scatterDescription[2], dom.scatterDescription[4]))

(***************************************************************************)
(* BarChart (src/src/barChart.ts), with built-in datasets                  *)
(***************************************************************************)
\* Properties every object inherits from Object.prototype (two of them).
ObjectPrototypeKeys == {"constructor", "toString"}

\* object[key] is truthy for an object written as a literal: it has the
\* property itself or inherits it.
HasTruthy(object, key) == key \in DOMAIN object \/ key \in ObjectPrototypeKeys

\* What object[key] then is: the array of the object, or a function, which
\* is no array and which the model writes as a one-element tuple of its own.
Get(object, key) ==
    IF key \in DOMAIN object THEN object[key] ELSE <<[inherited |-> key]>>

\* The value is one of the inherited functions, not an array.
IsInherited(value) == \E key \in ObjectPrototypeKeys : value = <<[inherited |-> key]>>

\* BarChart.render: clears the svg and draws a bar for every element of
\* data; data.map throws when data is no array.
BC_rendered(chart) ==
    [chart EXCEPT !.drawn =
        IF IsInherited(chart.data)
        THEN [drawn |-> TRUE, threw |-> "TypeError", labels |-> <<>>]
        ELSE [drawn |-> TRUE, threw |-> "nothing",
              labels |-> [b \in 1..Len(chart.data) |-> chart.data[b].label]]]

\* BarChart.updateData
BC_updatedData(chart, datasetKey) ==
    IF HasTruthy(chart.datasets, datasetKey)
    THEN BC_rendered([chart EXCEPT !.data = Get(chart.datasets, datasetKey)])
    ELSE chart

\* The keys updateData is called with: the options of the selector, a key of
\* no dataset and the name of an inherited property.
DatasetKeys == {"sales", "population", "revenue", "profit", "constructor"}

\* BarChart.render, called by the App's constructor and its navigation.
BC_render ==
    /\ bc' = BC_rendered(bc)
    /\ UNCHANGED <<csv, cm, sp, ch, as, sq, bcCsv, bmi, app, dom, pending,
                   xs, ys, returned>>

\* BarChart.updateData, called with the value of the dataset selector.
BC_updateData ==
    /\ \E datasetKey \in DatasetKeys : bc' = BC_updatedData(bc, datasetKey)
    /\ UNCHANGED <<csv, cm, sp, ch, as, sq, bcCsv, bmi, app, dom, pending,
                   xs, ys, returned>>

\* The records of the files the CSV-backed bar chart is run on: Occupation,
\* Sleep Duration, Stress Level and Physical Activity Level.
BarRows ==
    { [c \in {"Occupation", "Sleep Duration", "Stress Level", "Physical Activity Level"} |->
          IF c = "Occupation" THEN t[1]
          ELSE IF c = "Sleep Duration" THEN t[2]
          ELSE IF c = "Stress Level" THEN t[3]
          ELSE t[4]] : t \in {<<"Nurse", "0.7", "0.3", "0.1">>,
                                <<"Doctor", "0.2", "n/a", "0.3">>,
                                <<"Nurse", "0.1", "0.1", "1.0">>} }

BarFiles == UNION {[1..n -> BarRows] : n \in 0..MaxPageRows}

\* Array.from(d3.rollup(csvData, v => d3.mean(v, d => +d[column]),
\* d => d.Occupation), ...): a bar per occupation in the order of first
\* appearance, its value the mean or 0.
BCC_byOccupation(csvData, column) ==
    LET occupations == InsertionOrder([r \in 1..Len(csvData) |-> csvData[r]["Occupation"]])
        Values(occupation) ==
            LET Of(d) == d["Occupation"] = occupation
                v == SelectSeq(csvData, Of)
            IN  [r \in 1..Len(v) |-> Number(v[r][column])]
    IN  [k \in 1..Len(occupations) |->
            [label |-> occupations[k], value |-> OrZero(d3mean(Values(occupations[k])))]]

\* initializeData of the CSV-backed chart, from its await to its return.
BCC_initializedData(chart, csvData, ok) ==
    LET datasets ==
            IF ok
            THEN [key \in {"sleep-duration", "stress-level", "physical-activity"} |->
                     BCC_byOccupation(csvData,
                         IF key = "sleep-duration" THEN "Sleep Duration"
                         ELSE IF key = "stress-level" THEN "Stress Level"
                         ELSE "Physical Activity Level")]
            ELSE [key \in {"sleep-duration"} |->
                     <<[label |-> "Error loading data", value |-> Zero]>>]
    IN  [chart EXCEPT !.datasets = datasets, !.data = datasets["sleep-duration"]]

\* renderChart: clears the svg and draws a bar for every element of data.
BCC_renderedChart(chart) ==
    [chart EXCEPT !.drawn =
        [drawn |-> TRUE, labels |-> [b \in 1..Len(chart.data) |-> chart.data[b].label]]]

\* What a call of render or updateData came to: Object.keys(this.datasets)
\* and this.datasets[datasetKey] throw a TypeError while datasets is
\* undefined, which rejects the promise the call returns.
BCC_outcome(chart) ==
    IF chart.datasets = Undefined THEN "TypeError" ELSE "nothing"

\* render: with datasets of at least one key it draws.
BCC_rendered(chart) ==
    IF chart.datasets = Undefined THEN chart ELSE BCC_renderedChart(chart)

\* updateData
BCC_updatedData(chart, datasetKey) ==
    IF chart.datasets = Undefined THEN chart
    ELSE IF HasTruthy(chart.datasets, datasetKey)
    THEN BCC_renderedChart([chart EXCEPT !.data = Get(chart.datasets, datasetKey)])
    ELSE chart

\* The keys updateData is called with: the options of the selector and a
\* key of no dataset.
CsvDatasetKeys == {"sleep-duration", "stress-level", "physical-activity", "profit"}

\* The load the constructor started completes or fails.
BCC_initializeData ==
    /\ bcCsv.datasets = Undefined
    /\ \E ok \in BOOLEAN : bcCsv' = BCC_initializedData(bcCsv, csv, ok)
    /\ UNCHANGED <<csv, cm, sp, ch, as, sq, bc, bmi, app, dom, pending, xs,
                   ys, returned>>

\* render of the CSV-backed chart, called by the App.
BCC_render ==
    /\ bcCsv' = BCC_rendered(bcCsv)
    /\ returned' = [fn |-> "BarChart.render", threw |-> BCC_outcome(bcCsv)]
    /\ UNCHANGED <<csv, cm, sp, ch, as, sq, bc, bmi, app, dom, pending, xs,
                   ys>>

\* updateData of the CSV-backed chart, called with the value of the selector.
BCC_updateData ==
    /\ \E datasetKey \in CsvDatasetKeys :
          /\ bcCsv' = BCC_updatedData(bcCsv, datasetKey)
          /\ returned' = [fn |-> "BarChart.updateData", threw |-> BCC_outcome(bcCsv)]
    /\ UNCHANGED <<csv, cm, sp, ch, as, sq, bc, bmi, app, dom, pending, xs,
                   ys>>

\* Both bar charts, the second on a CSV file.
InitBarCharts ==
    /\ csv \in BarFiles
    /\ cm = CM_initial
    /\ sp = SP_initial
    /\ ch = CH_initial
    /\ as = AS_initial
    /\ sq = SQ_initial
    /\ bc = BC_initial
    /\ bcCsv = BCC_initial
    /\ bmi = BMI_initial
    /\ app = App_initial
    /\ dom = DOM_initial
    /\ pending = {}
    /\ xs = <<>>
    /\ ys = <<>>
    /\ returned = NoCall

NextBarCharts ==
    \/ BC_render
    \/ BC_updateData
    \/ BCC_initializeData
    \/ BCC_render
    \/ BCC_updateData

SpecBarCharts == InitBarCharts /\ [][NextBarCharts]_vars

(***************************************************************************)
(* Properties of the bar charts (SpecBarCharts)                            *)
(***************************************************************************)
\* C23: updateData shows datasets[key] for a key of a dataset and leaves the
\* chart as it is for any other key, so the data shown is always one of the
\* datasets.  (SpecBarCharts; the code does not keep it.)
C23_DataIsAKnownDataset ==
    /\ \E key \in DOMAIN BC_datasets : bc.data = BC_datasets[key]
    /\ \A datasetKey \in DatasetKeys :
          BC_updatedData(bc, datasetKey) =
              IF datasetKey \in DOMAIN BC_datasets
              THEN BC_rendered([bc EXCEPT !.data = BC_datasets[datasetKey]])
              ELSE bc

(***************************************************************************)
(* App (src/unnamed/part_000): startup, await by await (SpecStartup)       *)
(***************************************************************************)
\* The page before App's timer fires, on one of the page's files.
InitStartup ==
    /\ csv \in AppFiles
    /\ cm = CM_initial
    /\ sp = SP_initial
    /\ ch = CH_initial
    /\ as = AS_initial
    /\ sq = SQ_initial
    /\ bc = BC_initial
    /\ bcCsv = BCC_initial
    /\ bmi = BMI_initial
    /\ app = App_initial
    /\ dom = DOM_initial
    /\ pending = {}
    /\ xs = <<>>
    /\ ys = <<>>
    /\ returned = NoCall

\* The timer of App's constructor: the constructors of CorrelationMatrix and
\* CategoryHeatmap start their loads, and initializeApp calls the matrix's
\* render, which finds no data yet and starts a load of its own.
App_start ==
    /\ ~app.constructed
    /\ app' = [app EXCEPT !.constructed = TRUE]
    /\ pending' = pending \cup
          {[call |-> "CorrelationMatrix.initializeData", id |-> 1, at |-> "d3.csv",
            from |-> "constructor"],
           [call |-> "CategoryHeatmap.loadData", id |-> 2, at |-> "d3.csv"],
           [call |-> "CorrelationMatrix.initializeData", id |-> 3, at |-> "d3.csv",
            from |-> "render"]}
    /\ UNCHANGED <<csv, cm, sp, ch, as, sq, bc, bcCsv, bmi, dom, xs, ys,
                   returned>>

\* A run of initializeData that pushes onto the cells it finds, leaving out
\* the reset this.data = [].
CM_initializedData_appending(matrix, csvData, ok) ==
    IF ok
    THEN [CM_loaded(csvData) EXCEPT !.data = matrix.data \o @]
    ELSE CM_failed

\* The fields a run of initializeData leaves, from its await to its return,
\* on the fields it finds: it assigns variables, resets correlationMatrix and
\* data and fills them, or its catch assigns the three of a failed load.
CM_initializedData(matrix, csvData, ok) ==
    IF ok THEN CM_loaded(csvData) ELSE CM_failed

\* The CSV file of a waiting CorrelationMatrix.initializeData arrives, or its
\* load fails; the one render started returns to render, which draws and
\* returns to the await of initializeApp.
CM_initializeDataResume ==
    /\ \E c \in pending :
          /\ c.call = "CorrelationMatrix.initializeData"
          /\ \E ok \in BOOLEAN : cm' = CM_initializedData(cm, csv, ok)
          /\ pending' = (pending \ {c}) \cup
                (IF c.from = "render"
                 THEN {[call |-> "App.initializeApp", id |-> c.id,
                        at |-> "correlationMatrix.render"]}
                 ELSE {})
    /\ UNCHANGED <<csv, sp, ch, as, sq, bc, bcCsv, bmi, app, dom, xs, ys,
                   returned>>

\* initializeApp resumes after the matrix's render and requests the
\* heatmap of Sleep Duration and Quality of Sleep.
App_initializeAppResume ==
    /\ \E c \in pending :
          /\ c.call = "App.initializeApp"
          /\ ch' = CH_updatedCategories(ch, "Sleep Duration", "Quality of Sleep")
          /\ dom' = [dom EXCEPT !.heatmap = CH_rendered(ch')]
          /\ pending' = pending \ {c}
    /\ UNCHANGED <<csv, cm, sp, as, sq, bc, bcCsv, bmi, app, xs, ys, returned>>

\* The CSV file of the waiting CategoryHeatmap.loadData arrives, or its load
\* fails, which leaves this.data as it was.
CH_loadDataResume ==
    /\ \E c \in pending, ok \in BOOLEAN :
          /\ c.call = "CategoryHeatmap.loadData"
          /\ ch' = [ch EXCEPT !.data = IF ok THEN CH_loadedData(csv) ELSE @]
          /\ pending' = pending \ {c}
    /\ UNCHANGED <<csv, cm, sp, as, sq, bc, bcCsv, bmi, app, dom, xs, ys,
                   returned>>

NextStartup ==
    \/ App_start
    \/ CM_initializeDataResume
    \/ App_initializeAppResume
    \/ CH_loadDataResume

SpecStartup == InitStartup /\ [][NextStartup]_vars

\* The heatmap shows the cells of the pair initializeApp requests.
HeatmapShowsRequested ==
    /\ dom.heatmap.shown = "cells"
    /\ dom.heatmap.category1 = "Sleep Duration"
    /\ dom.heatmap.category2 = "Quality of Sleep"

\* C24: after startup, once every load has completed and the heatmap holds
\* the records of the file, the heatmap shows the distribution of Sleep
\* Duration and Quality of Sleep, whatever the order in which the loads
\* completed.  No step of SpecStartup leaves a state with nothing pending, so
\* what such a state shows is what the page shows from then on.  (SpecStartup;
\* the code does not keep it.)
C24_RequestedHeatmapShown ==
    (app.constructed /\ pending = {} /\ ch.data # <<>>) => HeatmapShowsRequested

(***************************************************************************)
(* Category selection (src/unnamed/part_000, App.initializeCategorySelection)*)
(***************************************************************************)
\* What the click handler does to App's fields in its branch for one
\* selected category, past its test for the same category: the category is
\* pushed and updateCategories is called with the pair.
App_pushedSecond(state, category) ==
    [state EXCEPT
        !.selectedCategories = Append(@, category),
        !.heatmapCall = <<"updateCategories", state.selectedCategories[1], category>>]

\* That branch without its return for the category already selected.
App_clickedSecond_pushingAlways(state, category) ==
    App_pushedSecond(state, category)

\* The click handler's branch for one selected category.
App_clickedSecond(state, category) ==
    IF state.selectedCategories[1] = category
    THEN [state EXCEPT !.heatmapCall = NoHeatmapCall]
    ELSE App_pushedSecond(state, category)

\* The fields of App after the click handler of the category buttons has run
\* on a button of that category, with the call it made on the heatmap.
App_clicked(state, category) ==
    IF category = "" THEN [state EXCEPT !.heatmapCall = NoHeatmapCall]
    ELSE IF Len(state.selectedCategories) = 0
    THEN [state EXCEPT !.selectedCategories = <<category>>,
                       !.heatmapCall = NoHeatmapCall]
    ELSE IF Len(state.selectedCategories) = 1
    THEN App_clickedSecond(state, category)
    ELSE [state EXCEPT !.selectedCategories = <<category>>,
                       !.heatmapCall = <<"render">>]

\* The page after that run of the handler, which took App's fields from
\* before to after and left the heatmap showing this.
App_clickedPage(page, before, after, category, heatmap) ==
    IF after.heatmapCall = <<"render">>
    THEN [page EXCEPT
             !.selected = {category},
             !.category1Display = category,
             !.category2Display = "Select second category",
             !.heatmapTitle = "Category Correlation Heatmap",
             !.heatmapDescription =
                 "Select two categories above to see their detailed correlation",
             !.heatmap = heatmap]
    ELSE IF after.heatmapCall # NoHeatmapCall
    THEN [page EXCEPT
             !.category2Display = category,
             !.selected = @ \cup {category},
             !.heatmapTitle =
                 <<after.selectedCategories[1], "vs", after.selectedCategories[2],
                   "Correlation">>,
             !.heatmapDescription =
                 <<"Distribution heatmap showing the relationship between",
                   after.selectedCategories[1], "and", after.selectedCategories[2]>>,
             !.heatmap = heatmap]
    ELSE IF Len(after.selectedCategories) > Len(before.selectedCategories)
    THEN [page EXCEPT !.category1Display = category,
                      !.selected = @ \cup {category}]
    ELSE page

\* A click on one of the category buttons, once App's timer has registered
\* the handler: updateCategories processes and renders, render draws what
\* the heatmap holds.
App_categoryClick ==
    /\ app.constructed
    /\ \E category \in CategoryButtons :
          /\ app' = App_clicked(app, category)
          /\ ch' = IF app'.heatmapCall \notin {NoHeatmapCall, <<"render">>}
                   THEN CH_updatedCategories(ch, app'.heatmapCall[2], app'.heatmapCall[3])
                   ELSE ch
          /\ dom' = App_clickedPage(dom, app, app', category, CH_rendered(ch'))
    /\ UNCHANGED <<csv, cm, sp, as, sq, bc, bcCsv, bmi, pending, xs, ys, returned>>

NextSelection ==
    \/ App_start
    \/ CM_initializeDataResume
    \/ App_initializeAppResume
    \/ CH_loadDataResume
    \/ App_categoryClick

SpecSelection == InitStartup /\ [][NextSelection]_vars

\* C25: after a click that reset the selection to one category, and until a
\* second category is chosen, the heatmap shows the placeholder of renderEmpty
\* and not the cells of the pair selected before.  (SpecSelection; the code
\* does not keep it.)
C25_ResetShowsPlaceholder ==
    (Len(app.selectedCategories) = 1 /\ app.heatmapCall = <<"render">>)
        => dom.heatmap.shown = "Select two categories to see their correlation heatmap"

\* C26: whatever was clicked, selectedCategories holds at most two
\* categories, two of them are different, and the handler has called
\* updateCategories exactly when its click made the selection grow from one
\* to two, with the two categories in the order of their selection; a
\* selection of two is always what the last click left, since a click on a
\* selection of two resets it.  (SpecSelection)
C26_SelectionAndUpdateCalls ==
    LET selectedCategories == app.selectedCategories
    IN  /\ Len(selectedCategories) <= 2
        /\ Len(selectedCategories) = 2 => selectedCategories[1] # selectedCategories[2]
        /\ IF Len(selectedCategories) = 2
           THEN app.heatmapCall =
                    <<"updateCategories", selectedCategories[1], selectedCategories[2]>>
           ELSE app.heatmapCall \in {NoHeatmapCall, <<"render">>}

\* A second category was selected and the heatmap shows the cells of the
\* pair.
C26_Witness ==
    /\ app.selectedCategories = <<"Quality of Sleep", "Physical Activity Level">>
    /\ dom.heatmapTitle =
          <<"Quality of Sleep", "vs", "Physical Activity Level", "Correlation">>
    /\ dom.heatmap.shown = "cells"
    /\ dom.heatmap.category1 = "Quality of Sleep"
    /\ dom.heatmap.category2 = "Physical Activity Level"

(***************************************************************************)
(* SleepQualityDemographics.updateGrouping, await by await (SpecGrouping)  *)
(***************************************************************************)
\* The grouping selector changes: updateGrouping sets currentGrouping and
\* waits for the CSV file.
SQ_updateGroupingStart ==
    /\ Cardinality(pending) < MaxPending
    /\ \E grouping \in Groupings :
          /\ sq' = [sq EXCEPT !.currentGrouping = grouping]
          /\ pending' = pending \cup
                {[call |-> "SleepQualityDemographics.updateGrouping", id |-> FreshId,
                  at |-> "d3.csv", grouping |-> grouping]}
    /\ UNCHANGED <<csv, cm, sp, ch, as, bc, bcCsv, bmi, app, dom, xs, ys,
                   returned>>

\* The CSV file of a waiting updateGrouping arrives and the call groups the
\* records by its own argument and enters render, which draws at once when
\* there is data and else waits for a load of its own; or the load fails and
\* the call logs the error and returns.
SQ_updateGroupingResume ==
    /\ \E c \in pending, ok \in BOOLEAN :
          /\ c.call = "SleepQualityDemographics.updateGrouping"
          /\ c.at = "d3.csv"
          /\ LET grouped == [sq EXCEPT !.data = SQ_updateDataForGrouping(csv, c.grouping)]
             IN  IF ~ok
                 THEN sq' = sq /\ pending' = pending \ {c}
                 ELSE IF grouped.data = <<>>
                 THEN /\ sq' = grouped
                      /\ pending' = (pending \ {c}) \cup {[c EXCEPT !.at = "render"]}
                 ELSE sq' = SQ_draw(grouped) /\ pending' = pending \ {c}
    /\ UNCHANGED <<csv, cm, sp, ch, as, bc, bcCsv, bmi, app, dom, xs, ys,
                   returned>>

\* The load render started for that call completes, for the grouping
\* currentGrouping names by then, or fails; render draws and the call returns.
SQ_updateGroupingRender ==
    /\ \E c \in pending, ok \in BOOLEAN :
          /\ c.call = "SleepQualityDemographics.updateGrouping"
          /\ c.at = "render"
          /\ sq' = SQ_draw(SQ_initialized(sq, csv, ok))
          /\ pending' = pending \ {c}
    /\ UNCHANGED <<csv, cm, sp, ch, as, bc, bcCsv, bmi, app, dom, xs, ys,
                   returned>>

NextGrouping ==
    \/ SQ_initializeData
    \/ SQ_updateGroupingStart
    \/ SQ_updateGroupingResume
    \/ SQ_updateGroupingRender

SpecGrouping == InitDemographics /\ [][NextGrouping]_vars

\* C27: once no updateGrouping is waiting, the records the component holds
\* and has drawn, unless they are the record of a failed load, are the
\* file's records grouped by the grouping currentGrouping names, the one the
\* axis label is written from.  (SpecGrouping; the code does not keep it.)
C27_DataGroupedByCurrentGrouping ==
    (pending = {} /\ sq.drawn # NotDrawn /\ sq.data # SQ_errorData)
        => sq.data = SQ_updateDataForGrouping(csv, sq.currentGrouping)

\* No initializeData of the matrix is waiting for its file.
CM_loadsCompleted ==
    /\ app.constructed
    /\ \A c \in pending : c.call # "CorrelationMatrix.initializeData"

\* C28: once the load the constructor started and the load render started
\* have both completed, in either order and each with or without success,
\* the matrix of n variables has n rows of n correlations and data holds the
\* n * n cells of the pairs of variables, row by row; after a failed load
\* that was the last to complete these are the one variable, row and cell of
\* the placeholder.  (SpecStartup)
C28_MatrixIsComplete ==
    CM_loadsCompleted =>
        LET n == Len(cm.variables)
        IN  /\ n > 0
            /\ Len(cm.correlationMatrix) = n
            /\ \A i \in 1..n : Len(cm.correlationMatrix[i]) = n
            /\ Len(cm.data) = n * n
            /\ \A i \in 1..n, j \in 1..n :
                   LET cell == cm.data[(i - 1) * n + j]
                   IN  /\ cell.variable1 = cm.variables[i]
                       /\ cell.variable2 = cm.variables[j]
                       /\ cell.correlation = cm.correlationMatrix[i][j]
            /\ cm.variables = <<"Error">> => cm = CM_failed

\* Both loads completed and the matrix of the file's variables is held.
C28_Witness ==
    /\ CM_loadsCompleted
    /\ Len(csv) > 0
    /\ Len(cm.variables) > 1
    /\ Len(cm.data) = Len(cm.variables) * Len(cm.variables)

\* C29: a call of render or updateData of the CSV-backed bar chart raises no
\* error, whether the load the constructor started has completed or not.
\* (SpecBarCharts; the code does not keep it.)
C29_CallsRaiseNoError ==
    returned.fn \in {"BarChart.render", "BarChart.updateData"} => returned.threw = "nothing"

(***************************************************************************)
(* BMISleepProfile (src/src/main.ts) (SpecProfile)                         *)
(***************************************************************************)
\* The records of the files the profile is run on: a BMI category and a
\* Quality of Sleep from 0 to 10, the bounds of the ranges among them.
ProfileRows ==
    { [c \in {"BMI Category", "Quality of Sleep"} |->
          IF c = "BMI Category" THEN t[1] ELSE t[2]] :
      t \in {"Normal", "Overweight"} \X {"0", "4", "6", "8", "10"} }

ProfileFiles == UNION {[1..n -> ProfileRows] : n \in 0..MaxPageRows}

\* The row conversion of loadData, for the two columns createVisualization
\* reads.
BMI_loadedData(csvData) ==
    [r \in 1..Len(csvData) |->
        [csvData[r] EXCEPT !["Quality of Sleep"] = Number(@)]]

sleepQualityBins == <<0, 4, 6, 8, 10>>
sleepQualityLabels == <<"Poor (0-4)", "Fair (4-6)", "Good (6-8)", "Excellent (8-10)">>

\* distribution of createVisualization for a BMI category.
BMI_distribution(data, bmiCategory) ==
    LET InCategory(d) == d["BMI Category"] = bmiCategory
        categoryData == SelectSeq(data, InCategory)
        total == Len(categoryData)
    IN  [i \in 1..Len(sleepQualityLabels) |->
            LET min == FromInt(sleepQualityBins[i])
                max == FromInt(sleepQualityBins[i + 1])
                InRange(d) == /\ FGe(d["Quality of Sleep"], min)
                              /\ FLt(d["Quality of Sleep"], max)
                count == Len(SelectSeq(categoryData, InRange))
            IN  [category |-> bmiCategory,
                 qualityRange |-> sleepQualityLabels[i],
                 count |-> count,
                 percentage |->
                     IF total > 0
                     THEN FMul(FDiv(FromInt(count), FromInt(total)), FromInt(100))
                     ELSE Zero]]

RECURSIVE BMI_stackedFrom(_, _, _)
BMI_stackedFrom(distribution, i, cumulative) ==
    IF i > Len(distribution) THEN <<>>
    ELSE LET d == distribution[i]
         IN  <<[category |-> d.category, qualityRange |-> d.qualityRange,
                count |-> d.count, percentage |-> d.percentage,
                y0 |-> cumulative, y1 |-> FAdd(cumulative, d.percentage)]>>
             \o BMI_stackedFrom(distribution, i + 1, FAdd(cumulative, d.percentage))

\* stackedData of createVisualization: the stacked distributions of the BMI
\* categories in the order of their first appearance.
BMI_stackedData(data) ==
    LET bmiCategories == InsertionOrder([r \in 1..Len(data) |-> data[r]["BMI Category"]])
    IN  Flatten([k \in 1..Len(bmiCategories) |->
                    BMI_stackedFrom(BMI_distribution(data, bmiCategories[k]), 1, Zero)], 1)

\* render: loadData keeps the data it had when the load fails, setupSVG
\* empties the container and createVisualization draws the stacked bars
\* unless there is no data.
BMI_rendered(profile, csvData, ok) ==
    LET data == IF ok THEN BMI_loadedData(csvData) ELSE profile.data
    IN  [data |-> data,
         drawn |-> IF Len(data) = 0
                   THEN [drawn |-> TRUE, stackedData |-> <<>>]
                   ELSE [drawn |-> TRUE, stackedData |-> BMI_stackedData(data)]]

BMI_render ==
    /\ \E ok \in BOOLEAN : bmi' = BMI_rendered(bmi, csv, ok)
    /\ UNCHANGED <<csv, cm, sp, ch, as, sq, bc, bcCsv, app, dom, pending, xs, ys,
                   returned>>

InitProfile ==
    /\ csv \in ProfileFiles
    /\ cm = CM_initial
    /\ sp = SP_initial
    /\ ch = CH_initial
    /\ as = AS_initial
    /\ sq = SQ_initial
    /\ bc = BC_initial
    /\ bcCsv = BCC_initial
    /\ bmi = BMI_initial
    /\ app = App_initial
    /\ dom = DOM_initial
    /\ pending = {}
    /\ xs = <<>>
    /\ ys = <<>>
    /\ returned = NoCall

NextProfile == BMI_render
SpecProfile == InitProfile /\ [][NextProfile]_vars

\* The counts of the bars drawn for a BMI category, added up.
RECURSIVE BMI_countFrom(_, _, _)
BMI_countFrom(stackedData, bmiCategory, i) ==
    IF i > Len(stackedData) THEN 0
    ELSE (IF stackedData[i].category = bmiCategory THEN stackedData[i].count ELSE 0)
         + BMI_countFrom(stackedData, bmiCategory, i + 1)

\* C30: in the drawn profile the counts of the four ranges of every BMI
\* category add up to the number of the category's records, whatever their
\* Quality of Sleep from 0 to 10, so that the category's percentages add up
\* to 100.  (SpecProfile; the code does not keep it.)
C30_RangesCoverEveryRecord ==
    bmi.drawn # NotDrawn =>
        \A bmiCategory \in {bmi.data[r]["BMI Category"] : r \in 1..Len(bmi.data)} :
            BMI_countFrom(bmi.drawn.stackedData, bmiCategory, 1)
                = Cardinality({r \in 1..Len(bmi.data) :
                                  bmi.data[r]["BMI Category"] = bmiCategory})

=============================================================================
